---- MODULE Spec2Model ----
(***************************************************************************)
(* Verification model of the point-cloud indexing core of                  *)
(* open-pointcloud-studio (src-tauri/src/pointcloud): the octree builder,  *)
(* the parser's point streaming and the PointcloudManager registry with    *)
(* its background workers, together with save_file and execute_shell       *)
(* (commands/mod.rs), which can rewrite or remove a file that a parser has *)
(* mapped, at any point of an open or of a batch read.                     *)
(*                                                                         *)
(* Coordinates are integers on a dyadic grid: the root box has side        *)
(* Extent = 2^(MAX_DEPTH+1), so (min+max)*0.5 is exact at every level the  *)
(* builder can reach, as it is for f64 on such values.  A file stores its  *)
(* coordinates as integers with a scale and an offset.  The file that is   *)
(* rewritten while the manager has it mapped holds one point in a box of   *)
(* side 2, so its tree is the root; the doubles of its header are 2.0,     *)
(* -2.0 and 0.0, of which every byte but the highest is zero, so a double  *)
(* read partly before and partly after the rewrite is one of them again.   *)
(***************************************************************************)
EXTENDS Integers, Sequences, FiniteSets, TLC

(***************************************************************************)
(* Bounds.  MAX_POINTS_PER_LEAF, MAX_DEPTH and BATCH_SIZE are the program's *)
(* parameters (65_536, 12 and 100_000 in the source) scaled down so that   *)
(* splits, the depth cap and multi-batch streaming happen on small inputs. *)
(***************************************************************************)
MAX_POINTS_PER_LEAF == 2
MAX_DEPTH == 2
BATCH_SIZE == 2
MaxPts == 4
MaxOpens == 2
MaxCallers == 2
MaxLodPts == 9
MaxChunks == 2
MaxBatch == 3
MaxCalls == 3
MaxRequests == 2
\* the calls of save_file and of execute_shell that change a file; a call
\* of execute_shell is made while fewer than these have been made
MaxFileCalls == 1

\* the page size of the mapping, and the message of the laz crate for
\* compressed data that ends early
PageSize == 4096
LazEofMessage == "failed to fill whole buffer"

SUBSAMPLE_RATIO == 8

Pow2(n) == 2 ^ n
Extent == Pow2(MAX_DEPTH + 1)

\* Option<T>
None == [some |-> FALSE]
Some(v) == [some |-> TRUE, val |-> v]

(***************************************************************************)
(* types.rs: PointRecord and BoundingBox3D                                 *)
(***************************************************************************)
PointRecord(x, y, z, r, g, b, intensity, classification) ==
    [x |-> x, y |-> y, z |-> z, r |-> r, g |-> g, b |-> b,
     intensity |-> intensity, classification |-> classification]

BoundingBox3D(x0, y0, z0, x1, y1, z1) ==
    [min_x |-> x0, min_y |-> y0, min_z |-> z0,
     max_x |-> x1, max_y |-> y1, max_z |-> z1]

\* (a + b) * 0.5, exact on the dyadic grid
Half(v) == v \div 2

center(bb) ==
    << Half(bb.min_x + bb.max_x), Half(bb.min_y + bb.max_y), Half(bb.min_z + bb.max_z) >>

contains(bb, x, y, z) ==
    /\ x >= bb.min_x /\ x <= bb.max_x
    /\ y >= bb.min_y /\ y <= bb.max_y
    /\ z >= bb.min_z /\ z <= bb.max_z

\* index & (1 << k) != 0
BitSet(index, k) == (index \div Pow2(k)) % 2 = 1

octant(bb, index) ==
    LET c == center(bb)
        x0 == IF ~BitSet(index, 0) THEN bb.min_x ELSE c[1]
        x1 == IF ~BitSet(index, 0) THEN c[1] ELSE bb.max_x
        y0 == IF ~BitSet(index, 1) THEN bb.min_y ELSE c[2]
        y1 == IF ~BitSet(index, 1) THEN c[2] ELSE bb.max_y
        z0 == IF ~BitSet(index, 2) THEN bb.min_z ELSE c[3]
        z1 == IF ~BitSet(index, 2) THEN c[3] ELSE bb.max_z
    IN  BoundingBox3D(x0, y0, z0, x1, y1, z1)

(***************************************************************************)
(* octree.rs: the tree is an arena of nodes; a child slot holds the arena  *)
(* index of the boxed child, or 0 for None.                                *)
(***************************************************************************)
NoChildren == << 0, 0, 0, 0, 0, 0, 0, 0 >>

OctreeNode_new(node_id, bounds, level) ==
    [node_id |-> node_id, bounds |-> bounds, level |-> level,
     points |-> << >>, children |-> NoChildren]

is_leaf(node) == \A m \in 1..8 : node.children[m] = 0

has_children(node) == \E m \in 1..8 : node.children[m] # 0

point_count(node) == Len(node.points)

\* the decimal digit that format!("{}{}", node_id, octant) appends
Digit(m) == << "0", "1", "2", "3", "4", "5", "6", "7" >>[m + 1]

\* mutant: a point on a centre plane goes to the lower octant
get_octant_Strict(bb, x, y, z) ==
    LET c == center(bb)
    IN  (IF x > c[1] THEN 1 ELSE 0) + (IF y > c[2] THEN 2 ELSE 0)
          + (IF z > c[3] THEN 4 ELSE 0)

get_octant(bb, x, y, z) ==
    LET c == center(bb)
    IN  (IF x >= c[1] THEN 1 ELSE 0) + (IF y >= c[2] THEN 2 ELSE 0)
          + (IF z >= c[3] THEN 4 ELSE 0)

\* mutant: the child's id is formed from the root's id, not the parent's
ensure_child_RootPrefix(t, n, oct) ==
    LET node == t.nodes[n]
    IN  IF node.children[oct + 1] = 0
        THEN LET k == Len(t.nodes) + 1
                 child == OctreeNode_new("r" \o Digit(oct),
                                         octant(node.bounds, oct), node.level + 1)
             IN  [t EXCEPT !.node_count = @ + 1,
                           !.nodes = Append([@ EXCEPT ![n].children[oct + 1] = k], child)]
        ELSE t

ensure_child(t, n, oct) ==
    LET node == t.nodes[n]
    IN  IF node.children[oct + 1] = 0
        THEN LET k == Len(t.nodes) + 1
                 child == OctreeNode_new(node.node_id \o Digit(oct),
                                         octant(node.bounds, oct), node.level + 1)
             IN  [t EXCEPT !.node_count = @ + 1,
                           !.nodes = Append([@ EXCEPT ![n].children[oct + 1] = k], child)]
        ELSE t

\* node.points.push(point)
push_point(t, n, point) == [t EXCEPT !.nodes[n].points = Append(@, point)]

RECURSIVE insert_into_node(_, _, _)
RECURSIVE redistribute(_, _, _)

\* the loop over existing_points of a leaf that is being split
redistribute(t, n, ps) ==
    IF ps = << >> THEN t
    ELSE LET p == Head(ps)
             oct == get_octant(t.nodes[n].bounds, p.x, p.y, p.z)
             t1 == ensure_child(t, n, oct)
             t2 == insert_into_node(t1, t1.nodes[n].children[oct + 1], p)
         IN  redistribute(t2, n, Tail(ps))

\* mutant: the depth cap is tested with > instead of >=
insert_into_node_DeepCap(t, n, point) ==
    LET node == t.nodes[n]
    IN  IF is_leaf(node) /\ Len(node.points) < MAX_POINTS_PER_LEAF
        THEN push_point(t, n, point)
        ELSE IF node.level > MAX_DEPTH
        THEN push_point(t, n, point)
        ELSE LET t1 == IF is_leaf(node) /\ node.points # << >>
                       THEN redistribute([t EXCEPT !.nodes[n].points = << >>],
                                         n, node.points)
                       ELSE t
                 oct == get_octant(node.bounds, point.x, point.y, point.z)
                 t2 == ensure_child(t1, n, oct)
             IN  insert_into_node(t2, t2.nodes[n].children[oct + 1], point)

\* mutant: the split copies the leaf's points to the children and keeps them
insert_into_node_NoDrain(t, n, point) ==
    LET node == t.nodes[n]
    IN  IF is_leaf(node) /\ Len(node.points) < MAX_POINTS_PER_LEAF
        THEN push_point(t, n, point)
        ELSE IF node.level >= MAX_DEPTH
        THEN push_point(t, n, point)
        ELSE LET t1 == IF is_leaf(node) /\ node.points # << >>
                       THEN redistribute(t, n, node.points)
                       ELSE t
                 oct == get_octant(node.bounds, point.x, point.y, point.z)
                 t2 == ensure_child(t1, n, oct)
             IN  insert_into_node(t2, t2.nodes[n].children[oct + 1], point)

insert_into_node(t, n, point) ==
    LET node == t.nodes[n]
    IN  IF is_leaf(node) /\ Len(node.points) < MAX_POINTS_PER_LEAF
        THEN push_point(t, n, point)
        ELSE IF node.level >= MAX_DEPTH
        THEN push_point(t, n, point)
        ELSE LET t1 == IF is_leaf(node) /\ node.points # << >>
                       THEN redistribute([t EXCEPT !.nodes[n].points = << >>],
                                         n, node.points)
                       ELSE t
                 oct == get_octant(node.bounds, point.x, point.y, point.z)
                 t2 == ensure_child(t1, n, oct)
             IN  insert_into_node(t2, t2.nodes[n].children[oct + 1], point)

insert_point(t, point) == insert_into_node(t, 1, point)

\* every SUBSAMPLE_RATIO-th point of ps, starting with index 0
RECURSIVE EveryNth(_, _)
EveryNth(ps, i) ==
    IF i > Len(ps) THEN << >>
    ELSE << ps[i] >> \o EveryNth(ps, i + SUBSAMPLE_RATIO)

RECURSIVE subsample(_, _, _)
\* mutant: the sub-sample of a child starts at its second point
subsample_FromSecond(t, n, m) ==
    IF m > 8 THEN << >>
    ELSE LET c == t.nodes[n].children[m]
         IN  (IF c # 0 THEN EveryNth(t.nodes[c].points, 2) ELSE << >>)
               \o subsample(t, n, m + 1)

subsample(t, n, m) ==
    IF m > 8 THEN << >>
    ELSE LET c == t.nodes[n].children[m]
         IN  (IF c # 0 THEN EveryNth(t.nodes[c].points, 1) ELSE << >>)
               \o subsample(t, n, m + 1)

RECURSIVE build_lod(_, _)
RECURSIVE build_lod_children(_, _, _)
build_lod_children(t, n, m) ==
    IF m > 8 THEN t
    ELSE LET c == t.nodes[n].children[m]
         IN  build_lod_children(IF c # 0 THEN build_lod(t, c) ELSE t, n, m + 1)

\* mutant: a node is sub-sampled before its children are processed
build_lod_ParentFirst(t, n) ==
    LET node == t.nodes[n]
        t1 == IF has_children(node) /\ node.points = << >>
              THEN [t EXCEPT !.nodes[n].points = subsample(t, n, 1)]
              ELSE t
    IN  build_lod_children(t1, n, 1)

build_lod(t, n) ==
    LET t1 == build_lod_children(t, n, 1)
        node == t1.nodes[n]
    IN  IF has_children(node) /\ node.points = << >>
        THEN [t1 EXCEPT !.nodes[n].points = subsample(t1, n, 1)]
        ELSE t1

Octree_new(total, bounds) ==
    [nodes |-> << OctreeNode_new("r", bounds, 0) >>,
     total_points |-> total, node_count |-> 1]

RECURSIVE insert_all(_, _)
insert_all(t, ps) ==
    IF ps = << >> THEN t ELSE insert_all(insert_point(t, Head(ps)), Tail(ps))

Octree_build(points, bounds) ==
    build_lod(insert_all(Octree_new(Len(points), bounds), points), 1)

(***************************************************************************)
(* Inputs: the points that occur in files and build inputs.  PCentre lies  *)
(* on all three centre planes of the root, PPlane on a centre plane of a   *)
(* child, PFar lies outside the dataset bounds.                            *)
(***************************************************************************)
RootBounds == BoundingBox3D(0, 0, 0, Extent, Extent, Extent)

POrigin == PointRecord(0, 0, 0, 128, 128, 128, 100, 2)
PCentre == PointRecord(Extent \div 2, Extent \div 2, Extent \div 2, 64, 128, 192, 200, 2)
PCorner == PointRecord(Extent, Extent, Extent, 128, 128, 128, 300, 5)
PPlane == PointRecord(Extent \div 4, Extent \div 2, 0, 10, 20, 30, 7, 1)
PFar == PointRecord(Extent + 2, 0, 0, 128, 128, 128, 0, 0)

PointSet == { POrigin, PCentre, PCorner, PPlane, PFar }

\* the points of the long inputs, which pile up in leaves at the depth cap
LodPointSet == { POrigin, PCentre }

RECURSIVE SeqsUpTo(_, _)
SeqsUpTo(S, n) ==
    IF n = 0 THEN { << >> }
    ELSE LET shorter == SeqsUpTo(S, n - 1)
         IN  shorter \cup { Append(q, e) : q \in { r \in shorter : Len(r) = n - 1 }, e \in S }

Min(a, b) == IF a < b THEN a ELSE b

RECURSIVE GCD(_, _)
GCD(a, b) == IF b = 0 THEN a ELSE GCD(b, a % b)

Ok(v) == [ok |-> TRUE, val |-> v]
Err(e) == [ok |-> FALSE, err |-> e]

(***************************************************************************)
(* The bytes of an f64 whose value is an integer below 2^20                *)
(***************************************************************************)
RECURSIVE FloorLog2(_)
FloorLog2(a) == IF a < 2 THEN 0 ELSE 1 + FloorLog2(a \div 2)

\* sign bit, 11 exponent bits (bias 1023), 52 fraction bits of which the
\* low 32 are zero for an integer below 2^20, low byte first
f64_to_le_bytes(v) ==
    IF v = 0 THEN << 0, 0, 0, 0, 0, 0, 0, 0 >>
    ELSE LET a == IF v < 0 THEN 0 - v ELSE v
             e == FloorLog2(a)
             biased == e + 1023
             high == (a - Pow2(e)) * Pow2(20 - e)
         IN  << 0, 0, 0, 0, high % 256, (high \div 256) % 256,
                (biased % 16) * 16 + (high \div 65536),
                (IF v < 0 THEN 128 ELSE 0) + (biased \div 16) >>

f64_exponent(b) == (b[8] % 128) * 16 + (b[7] \div 16) - 1023

f64_fraction_high(b) == (b[7] % 16) * 65536 + b[6] * 256 + b[5]

f64_readable(b) ==
    \/ b = << 0, 0, 0, 0, 0, 0, 0, 0 >>
    \/ /\ SubSeq(b, 1, 4) = << 0, 0, 0, 0 >>
       /\ f64_exponent(b) \in 0..20
       /\ f64_fraction_high(b) % Pow2(20 - f64_exponent(b)) = 0

f64_from_le_bytes(b) ==
    IF b = << 0, 0, 0, 0, 0, 0, 0, 0 >> THEN 0
    ELSE LET a == Pow2(f64_exponent(b))
                    + (f64_fraction_high(b) \div Pow2(20 - f64_exponent(b)))
         IN  IF b[8] >= 128 THEN 0 - a ELSE a

(***************************************************************************)
(* parser.rs.  A file is described by the header fields the parser reads,  *)
(* by the complete point records stored from offset_to_points on (their    *)
(* coordinates as stored, the intensity, the bytes 15 and 16 and the high  *)
(* bytes of the colour channels a coloured format stores), and by what the *)
(* laz crate makes of its LASzip VLR and its compressed data.  size is the *)
(* length of the mapping; backing is the length of the file behind it,     *)
(* which differs once the file has been rewritten under the mapping; ino   *)
(* tells the files apart that one path has named, 0 being the first; text  *)
(* holds the bytes of a file that save_file wrote.                         *)
(***************************************************************************)
\* a point record as the file stores it: the coordinates as i32, the
\* intensity, the bytes 15 and 16 of the record, one of which the format
\* makes the classification, and the high bytes of the colour channels
RawRecord(xi, yi, zi, intensity, b15, b16, r, g, b) ==
    [xi |-> xi, yi |-> yi, zi |-> zi, intensity |-> intensity,
     b15 |-> b15, b16 |-> b16, r |-> r, g |-> g, b |-> b]

\* the record that stores point p in a file of format fmt with scale 1 and
\* offset 0; the other one of the bytes 15 and 16 is zero
StoredRecord(p, fmt) ==
    RawRecord(p.x, p.y, p.z, p.intensity,
              IF fmt >= 6 THEN 0 ELSE p.classification,
              IF fmt >= 6 THEN p.classification ELSE 0, p.r, p.g, p.b)

LasFile(exists, size, sig, vmaj, vmin, fmt, reclen, n32, n64, recs, laz, vlr) ==
    [exists |-> exists, is_dir |-> FALSE, ino |-> 0, size |-> size, backing |-> size,
     signature |-> sig,
     version_major |-> vmaj, version_minor |-> vmin,
     offset_to_points |-> IF laz THEN 400 ELSE size - Len(recs) * reclen,
     point_data_format |-> fmt, point_data_record_length |-> reclen,
     legacy_point_count |-> n32, point_count_64 |-> n64,
     scale |-> << 1, 1, 1 >>, offset |-> << 0, 0, 0 >>,
     min |-> << 0, 0, 0 >>, max |-> << Extent, Extent, Extent >>,
     records |-> [i \in DOMAIN recs |-> StoredRecord(recs[i], fmt)],
     is_laz |-> laz, has_laszip_vlr |-> vlr,
     vlr_error |-> "", decompressor_error |-> "", text |-> None]

\* the file that stores the points of file with the given scale and offset
Georef(file, scale, offset) ==
    [file EXCEPT
       !.scale = scale, !.offset = offset,
       !.records = [i \in DOMAIN file.records |->
                      [file.records[i] EXCEPT
                         !.xi = (@ - offset[1]) \div scale[1],
                         !.yi = (@ - offset[2]) \div scale[2],
                         !.zi = (@ - offset[3]) \div scale[3]]]]

\* the file whose records hold in byte 16, the scan angle of the formats 0
\* to 5, the value of byte 15
SameByte16(file) ==
    [file EXCEPT !.records = [i \in DOMAIN file.records |->
                                [file.records[i] EXCEPT !.b16 = file.records[i].b15]]]

\* a file holding the bytes of a string, as save_file writes it: the string
\* is shorter than the header up to its version bytes, so the signature is
\* its first bytes and every other header field reads as zero
TextFile(data) ==
    [LasFile(TRUE, Len(data), SubSeq(data, 1, Min(4, Len(data))),
             0, 0, 0, 0, 0, 0, << >>, FALSE, FALSE)
        EXCEPT !.offset_to_points = 0, !.scale = << 0, 0, 0 >>,
               !.max = << 0, 0, 0 >>, !.text = Some(data)]

\* no file
NoFile == LasFile(FALSE, 0, "", 0, 0, 0, 0, 0, 0, << >>, FALSE, FALSE)

\* the point of the file that is rewritten while it is mapped; its header
\* doubles are 2.0, -2.0 and 0.0, whose low seven bytes are zero
PNear == PointRecord(2, 2, 2, 128, 128, 128, 300, 5)

Files ==
    [ p \in { "a.las", "t.las", "w.las", "w1.las", "s.las", "c.laz", "g.laz", "x.las",
              "short.las", "v10.las", "v11.las", "v13.las", "v15.las", "v20.las",
              "f10.las", "f11.las", "f255.las",
              "missing.las", "adir.las", "sub/a.las", "z.las", "a2.las", "n2.las",
              "trunc.laz", "shortrec.laz", "badvlr.laz", "baddec.laz" } |->
        CASE p = "a.las" ->  \* LAS 1.2 format 0, three records, scale 2, offset 2
               Georef(LasFile(TRUE, 1000, "LASF", 1, 2, 0, 20, 3, 0,
                              << PCentre, POrigin, PCentre >>, FALSE, FALSE),
                      << 2, 2, 2 >>, << 2, 2, 2 >>)
          [] p = "t.las" ->  \* header announces three points, file holds one
               [Georef(LasFile(TRUE, 247, "LASF", 1, 2, 0, 20, 3, 0,
                               << PNear >>, FALSE, FALSE),
                       << 2, 2, 2 >>, << -2, -2, -2 >>)
                   EXCEPT !.max = << 2, 2, 2 >>]
          [] p = "w.las" ->  \* format 0, scan angles equal to the classes
               SameByte16(Georef(LasFile(TRUE, 1000, "LASF", 1, 2, 0, 20, 3, 0,
                                         << PCentre, POrigin, PCentre >>, FALSE, FALSE),
                                 << 2, 2, 2 >>, << 2, 2, 2 >>))
          [] p = "w1.las" ->  \* LAS 1.3 format 1, one record
               SameByte16(LasFile(TRUE, 1000, "LASF", 1, 3, 1, 28, 1, 0,
                                  << PPlane >>, FALSE, FALSE))
          [] p = "s.las" ->  \* record length 12: shorter than the fields read
               LasFile(TRUE, 1000, "LASF", 1, 2, 0, 12, 1, 0,
                       << POrigin >>, FALSE, FALSE)
          [] p = "c.laz" ->  \* compressed file without a LASzip VLR
               LasFile(TRUE, 1000, "LASF", 1, 4, 7, 36, 0, 2,
                       << PPlane, PCorner >>, TRUE, FALSE)
          [] p = "g.laz" ->  \* compressed file, one point
               LasFile(TRUE, 1000, "LASF", 1, 4, 7, 36, 0, 1,
                       << PPlane >>, TRUE, TRUE)
          [] p = "x.las" ->  \* not a LAS file
               LasFile(TRUE, 1000, "XXXX", 1, 2, 0, 20, 1, 0,
                       << POrigin >>, FALSE, FALSE)
          [] p = "short.las" ->  \* 226 bytes, one less than the header
               LasFile(TRUE, 226, "LASF", 1, 2, 0, 20, 0, 0, << >>, FALSE, FALSE)
          [] p = "v10.las" ->  \* LAS 1.0
               LasFile(TRUE, 1000, "LASF", 1, 0, 0, 20, 1, 0,
                       << POrigin >>, FALSE, FALSE)
          [] p = "v11.las" ->  \* LAS 1.1
               LasFile(TRUE, 1000, "LASF", 1, 1, 1, 28, 1, 0,
                       << POrigin >>, FALSE, FALSE)
          [] p = "v13.las" ->  \* LAS 1.3 format 3
               LasFile(TRUE, 1000, "LASF", 1, 3, 3, 34, 1, 0,
                       << PPlane >>, FALSE, FALSE)
          [] p = "v15.las" ->  \* LAS 1.5
               LasFile(TRUE, 1000, "LASF", 1, 5, 0, 20, 1, 0,
                       << POrigin >>, FALSE, FALSE)
          [] p = "v20.las" ->  \* LAS 2.0
               LasFile(TRUE, 1000, "LASF", 2, 0, 0, 20, 1, 0,
                       << POrigin >>, FALSE, FALSE)
          [] p = "f10.las" ->  \* LAS 1.4 format 10
               LasFile(TRUE, 1000, "LASF", 1, 4, 10, 67, 0, 1,
                       << PPlane >>, FALSE, FALSE)
          [] p = "f11.las" ->  \* LAS 1.4 with point data format 11
               LasFile(TRUE, 1000, "LASF", 1, 4, 11, 67, 0, 1,
                       << PPlane >>, FALSE, FALSE)
          [] p = "f255.las" ->  \* LAS 1.2 with point data format 255
               LasFile(TRUE, 1000, "LASF", 1, 2, 255, 20, 1, 0,
                       << POrigin >>, FALSE, FALSE)
          [] p = "missing.las" ->  \* no such file
               NoFile
          [] p = "adir.las" ->  \* a directory
               [LasFile(TRUE, 0, "", 0, 0, 0, 0, 0, 0, << >>, FALSE, FALSE)
                   EXCEPT !.is_dir = TRUE]
          [] p = "sub/a.las" ->  \* a file in a directory
               LasFile(TRUE, 1000, "LASF", 1, 2, 0, 20, 2, 0,
                       << POrigin, PCentre >>, FALSE, FALSE)
          [] p = "z.las" ->  \* record length 0 and a positive point count
               LasFile(TRUE, 1000, "LASF", 1, 2, 0, 0, 2, 0, << >>, FALSE, FALSE)
          [] p = "a2.las" ->  \* format 2: colour at byte 20 of 26
               LasFile(TRUE, 1000, "LASF", 1, 2, 2, 26, 2, 0,
                       << PCentre, PPlane >>, FALSE, FALSE)
          [] p = "n2.las" ->  \* format 2 with records too short for the colour
               LasFile(TRUE, 1000, "LASF", 1, 2, 2, 25, 1, 0,
                       << PCentre >>, FALSE, FALSE)
          [] p = "trunc.laz" ->  \* announces two points, the data holds one
               LasFile(TRUE, 1000, "LASF", 1, 4, 7, 36, 0, 2,
                       << PPlane >>, TRUE, TRUE)
          [] p = "shortrec.laz" ->  \* record length 12
               LasFile(TRUE, 1000, "LASF", 1, 2, 0, 12, 1, 0,
                       << POrigin >>, TRUE, TRUE)
          [] p = "badvlr.laz" ->  \* LazVlr::from_buffer rejects the VLR
               [LasFile(TRUE, 1000, "LASF", 1, 4, 7, 36, 0, 1,
                        << PPlane >>, TRUE, TRUE)
                   EXCEPT !.vlr_error = "failed to fill whole buffer"]
          [] p = "baddec.laz" ->  \* LasZipDecompressor::new rejects the data
               [LasFile(TRUE, 1000, "LASF", 1, 4, 7, 36, 0, 1,
                        << PPlane >>, TRUE, TRUE)
                   EXCEPT !.decompressor_error = "failed to fill whole buffer"] ]

\* the files the registry is run on
Paths == { "a.las", "t.las", "s.las", "c.laz" }

\* the files stream_points is run on
StreamPaths ==
    Paths \cup { "g.laz", "x.las", "z.las", "a2.las", "n2.las", "f11.las", "sub/a.las",
                 "trunc.laz", "shortrec.laz", "badvlr.laz", "baddec.laz" }

\* the files open is run on for its header checks
HeaderPaths == DOMAIN Files

parse_las_header(data) ==
    IF data.size < 227 THEN Err("File too small for LAS header")
    ELSE IF data.signature # "LASF" THEN Err("Not a LAS file (invalid signature)")
    ELSE IF data.version_major # 1 \/ data.version_minor > 4
    THEN Err("Unsupported LAS version " \o ToString(data.version_major) \o "."
               \o ToString(data.version_minor))
    ELSE Ok([version_major |-> data.version_major,
             version_minor |-> data.version_minor,
             offset_to_points |-> data.offset_to_points,
             point_data_format |-> data.point_data_format,
             point_data_record_length |-> data.point_data_record_length,
             number_of_points |->
                 IF data.version_minor >= 4 /\ data.size >= 255
                 THEN data.point_count_64 ELSE data.legacy_point_count,
             scale |-> data.scale, offset |-> data.offset,
             min |-> data.min, max |-> data.max,
             has_color |-> data.point_data_format \in { 2, 3, 5, 7, 8, 10 },
             has_gps_time |-> data.point_data_format \in { 1, 3, 4, 5, 6, 7, 8, 9, 10 }])

\* the position of the last occurrence of the character ch in s, or 0
RECURSIVE LastIndexOf(_, _)
LastIndexOf(s, ch) ==
    IF Len(s) = 0 THEN 0
    ELSE IF SubSeq(s, Len(s), Len(s)) = ch THEN Len(s)
    ELSE LastIndexOf(SubSeq(s, 1, Len(s) - 1), ch)

\* Path::file_name: the final component when it is a normal one; trailing
\* separators and "." components are skipped, ".." and the root have none
RECURSIVE path_file_name(_)
path_file_name(p) ==
    IF Len(p) = 0 THEN None
    ELSE LET slash == LastIndexOf(p, "/")
             comp == SubSeq(p, slash + 1, Len(p))
         IN  IF Len(comp) = 0 THEN path_file_name(SubSeq(p, 1, Len(p) - 1))
             ELSE IF comp = "."
             THEN IF slash = 0 THEN None ELSE path_file_name(SubSeq(p, 1, slash))
             ELSE IF comp = ".." THEN None
             ELSE Some(comp)

\* Path::extension: what follows the last dot of the file name, unless the
\* name has no dot or only a leading one
path_extension(p) ==
    LET name == path_file_name(p)
        dot == LastIndexOf(name.val, ".")
    IN  IF ~name.some THEN None
        ELSE IF dot <= 1 THEN None
        ELSE Some(SubSeq(name.val, dot + 1, Len(name.val)))

UpperCase == "ABCDEFGHIJKLMNOPQRSTUVWXYZ"
LowerCase == "abcdefghijklmnopqrstuvwxyz"

\* str::to_lowercase on the ASCII letters
RECURSIVE to_lowercase(_)
to_lowercase(s) ==
    IF Len(s) = 0 THEN ""
    ELSE LET c == SubSeq(s, 1, 1)
             k == { i \in 1..Len(UpperCase) : SubSeq(UpperCase, i, i) = c }
             lc == IF k = {} THEN c
                   ELSE LET i == CHOOSE i \in k : TRUE IN SubSeq(LowerCase, i, i)
         IN  lc \o to_lowercase(SubSeq(s, 2, Len(s)))

\* lines 103-107: is_laz of open
path_is_laz(path) ==
    LET ext == path_extension(path)
    IN  ext.some /\ to_lowercase(ext.val) = "laz"

\* a call that does not return: the thread panics or the process is killed
Abort(kind) == [ok |-> FALSE, abort |-> kind]
IsAbort(outcome) == "abort" \in DOMAIN outcome

\* the mapped bytes that can be read: the pages up to the one holding the
\* end of the file behind the mapping; a read past them is a SIGBUS
ValidBytes(mmap) == ((mmap.backing + PageSize - 1) \div PageSize) * PageSize

\* lines 108-112 of open: File::open and Mmap::map on the file that path
\* names.  Mapping a directory fails; an empty file maps to an empty mapping.
Parser_map(path, file) ==
    IF ~file.exists
    THEN Err("Failed to open file: No such file or directory (os error 2)")
    ELSE IF file.is_dir
    THEN Err("Failed to mmap file: No such device (os error 19)")
    ELSE Ok(file)

\* lines 114-116 of open: parse_las_header on the bytes the mapping reads,
\* data; the parser keeps the mapping and the header.  The signature is
\* the first read of a mapping long enough.
Parser_parse(path, mmap, data) ==
    LET h == parse_las_header(data)
    IN  IF data.size >= 227 /\ ValidBytes(data) < 4 THEN Abort("sigbus")
        ELSE IF ~h.ok THEN h
        ELSE Ok([mmap |-> mmap, mapped_path |-> path, header |-> h.val,
                 is_laz |-> path_is_laz(path)])

\* PointcloudParser::open with nothing writing the file meanwhile
Parser_open(path, file) ==
    IF ~Parser_map(path, file).ok THEN Parser_map(path, file)
    ELSE Parser_parse(path, file, file)

\* a little-endian integer of which the low j bytes were read as a and the
\* other bytes as b.  The values lie in the range of an i32 and are taken in
\* two's complement: % gives the low bytes, \div, which rounds down, the
\* others.  Of an integer of eight bytes the high four are zero.
TornInt(a, b, j) ==
    IF j = 0 THEN b
    ELSE IF j >= 4 THEN a
    ELSE (a % (256 ^ j)) + (b \div (256 ^ j)) * (256 ^ j)

\* a little-endian f64 of which the low j bytes were read as a and the
\* other bytes as b; a pattern that is no integer below 2^20 is kept as
\* its bytes
TornF64(a, b, j) ==
    LET u == f64_to_le_bytes(a)
        v == f64_to_le_bytes(b)
        bytes == [i \in 1..8 |-> IF i <= j THEN u[i] ELSE v[i]]
    IN  IF f64_readable(bytes) THEN f64_from_le_bytes(bytes) ELSE [bits |-> bytes]

\* the reads of parse_las_header in the order of the source
HeaderReads ==
    << "signature", "version_major", "version_minor", "offset_to_points",
       "point_data_format", "point_data_record_length", "number_of_points",
       "scale_x", "scale_y", "scale_z", "offset_x", "offset_y", "offset_z",
       "max_x", "min_x", "max_y", "min_y", "max_z", "min_z" >>

\* the order an optimised build reads in: the point data format and the
\* point count before the offset to the points and the record length
HeaderReadsRelease ==
    << "signature", "version_major", "version_minor", "point_data_format",
       "number_of_points", "offset_to_points", "point_data_record_length",
       "scale_x", "scale_y", "scale_z", "offset_x", "offset_y", "offset_z",
       "max_x", "min_x", "max_y", "min_y", "max_z", "min_z" >>

HeaderOrders == { HeaderReads, HeaderReadsRelease }

\* the bytes of each read; read_f64 reads its eight bytes one by one.  The
\* point count is the u64 of LAS 1.4; of the u32 of the other versions a cut
\* past its four bytes is the cut after the read.
HeaderReadBytes ==
    [ f \in { HeaderReads[n] : n \in 1..Len(HeaderReads) } |->
        CASE f \in { "signature", "offset_to_points" } -> 4
          [] f \in { "version_major", "version_minor", "point_data_format" } -> 1
          [] f = "point_data_record_length" -> 2
          [] OTHER -> 8 ]

\* the points of a call at which a write of the mapped file can fall: in
\* one of the read orders, before read k, after its first j bytes
HeaderCuts ==
    { << order, k, j >> \in HeaderOrders \X (1..Len(HeaderReads)) \X (0..8) :
        j <= HeaderReadBytes[order[k]] }

\* the header bytes parse_las_header reads from a mapping that reads as
\* before up to the cut and as after from it on
TornHeader(before, after, cut) ==
    LET order == cut[1]
        k == cut[2]
        j == cut[3]
        pos(f) == CHOOSE n \in 1..Len(order) : order[n] = f
        int(f, a, b) == IF pos(f) < k THEN a ELSE IF pos(f) > k THEN b
                        ELSE TornInt(a, b, j)
        f64(f, a, b) == IF pos(f) < k THEN a ELSE IF pos(f) > k THEN b
                        ELSE TornF64(a, b, j)
        byte(f, a, b) == IF pos(f) < k \/ (pos(f) = k /\ j = 1) THEN a ELSE b
    IN  [after EXCEPT
           !.signature = IF k > 1 THEN before.signature
                         ELSE SubSeq(before.signature, 1, Min(j, Len(before.signature)))
                                \o SubSeq(after.signature, j + 1, Len(after.signature)),
           !.version_major = byte("version_major", before.version_major,
                                  after.version_major),
           !.version_minor = byte("version_minor", before.version_minor,
                                  after.version_minor),
           !.offset_to_points = int("offset_to_points", before.offset_to_points,
                                    after.offset_to_points),
           !.point_data_format = byte("point_data_format", before.point_data_format,
                                      after.point_data_format),
           !.point_data_record_length =
               int("point_data_record_length", before.point_data_record_length,
                   after.point_data_record_length),
           !.legacy_point_count = int("number_of_points", before.legacy_point_count,
                                      after.legacy_point_count),
           !.point_count_64 = int("number_of_points", before.point_count_64,
                                  after.point_count_64),
           !.scale = << f64("scale_x", before.scale[1], after.scale[1]),
                        f64("scale_y", before.scale[2], after.scale[2]),
                        f64("scale_z", before.scale[3], after.scale[3]) >>,
           !.offset = << f64("offset_x", before.offset[1], after.offset[1]),
                         f64("offset_y", before.offset[2], after.offset[2]),
                         f64("offset_z", before.offset[3], after.offset[3]) >>,
           !.max = << f64("max_x", before.max[1], after.max[1]),
                      f64("max_y", before.max[2], after.max[2]),
                      f64("max_z", before.max[3], after.max[3]) >>,
           !.min = << f64("min_x", before.min[1], after.min[1]),
                      f64("min_y", before.min[2], after.min[2]),
                      f64("min_z", before.min[3], after.min[3]) >>]

total_points(parser) == parser.header.number_of_points

bounds(parser) ==
    BoundingBox3D(parser.header.min[1], parser.header.min[2], parser.header.min[3],
                  parser.header.max[1], parser.header.max[2], parser.header.max[3])

metadata(parser, id, file_path) ==
    [id |-> id, file_path |-> file_path,
     file_name |-> IF path_file_name(file_path).some
                   THEN path_file_name(file_path).val ELSE "unknown",
     format |-> IF parser.is_laz THEN "LAZ" ELSE "LAS",
     total_points |-> parser.header.number_of_points,
     bounds |-> bounds(parser),
     has_color |-> parser.header.has_color,
     has_intensity |-> TRUE, has_classification |-> TRUE,
     point_record_format |-> parser.header.point_data_format,
     las_version |-> ToString(parser.header.version_major) \o "."
                       \o ToString(parser.header.version_minor)]

\* the highest byte index a record decode reads unconditionally, plus one:
\* rec[15] for formats 0-5, rec[16] for formats 6 and up
RecordBytesRead(format) == IF format >= 6 THEN 17 ELSE 16

color_byte_offset(format) ==
    CASE format = 2 -> 20
      [] format = 3 -> 28
      [] format = 5 -> 28
      [] format = 7 -> 30
      [] format = 8 -> 30
      [] format = 10 -> 30
      [] OTHER -> 0

\* the condition under which a record's colour bytes are read
ColorRead(header) ==
    /\ header.has_color
    /\ color_byte_offset(header.point_data_format) > 0
    /\ color_byte_offset(header.point_data_format) + 5 < header.point_data_record_length

\* lines 195-226, one record decoded: the stored coordinates scaled and
\* offset, the classification from byte 16 for a format of 6 and up and
\* from byte 15 otherwise, the colour the record's only when it is read
decode_record(header, rec) ==
    PointRecord(rec.xi * header.scale[1] + header.offset[1],
                rec.yi * header.scale[2] + header.offset[2],
                rec.zi * header.scale[3] + header.offset[3],
                IF ColorRead(header) THEN rec.r ELSE 128,
                IF ColorRead(header) THEN rec.g ELSE 128,
                IF ColorRead(header) THEN rec.b ELSE 128,
                rec.intensity,
                IF header.point_data_format >= 6 THEN rec.b16 ELSE rec.b15)

decode_records(header, recs) == [i \in DOMAIN recs |-> decode_record(header, recs[i])]

\* the bytes of a record the decode reads, counted from its start
BytesNeeded(header) ==
    IF ColorRead(header) THEN color_byte_offset(header.point_data_format) + 6
    ELSE RecordBytesRead(header.point_data_format)

\* the record of a file region that reads as zero bytes; decoded, its
\* coordinates are the offsets of the header
ZeroRecord == RawRecord(0, 0, 0, 0, 0, 0, 0, 0, 0)

\* the code of a lower-case letter
Ascii(c) == 96 + (CHOOSE i \in 1..Len(LowerCase) : SubSeq(LowerCase, i, i) = c)

\* the byte at position pos, from 0, of a mapping whose file holds the
\* string data: the bytes past the string read as zero
TextByte(data, pos) ==
    IF pos < Len(data) THEN Ascii(SubSeq(data, pos + 1, pos + 1)) ELSE 0

\* i32::from_le_bytes
i32_from_le_bytes(b0, b1, b2, b3) ==
    b0 + 256 * b1 + 65536 * b2 + 16777216 * (IF b3 >= 128 THEN b3 - 256 ELSE b3)

\* the record at byte start of a mapping whose file holds the string data
TextRecord(data, header, start) ==
    LET at(k) == TextByte(data, start + k)
        co == color_byte_offset(header.point_data_format)
    IN  IF start >= Len(data) THEN ZeroRecord
        ELSE RawRecord(i32_from_le_bytes(at(0), at(1), at(2), at(3)),
                       i32_from_le_bytes(at(4), at(5), at(6), at(7)),
                       i32_from_le_bytes(at(8), at(9), at(10), at(11)),
                       at(12) + 256 * at(13), at(15), at(16),
                       at(co + 1), at(co + 3), at(co + 5))

\* the record number index, from 0, that a parser with the given header
\* finds in the mapping mmap: the records of the file it was mapped on, read
\* with the header of that file, or the bytes of the string written over it
RecordAt(mmap, header, index) ==
    IF mmap.text.some
    THEN TextRecord(mmap.text.val, header,
                    header.offset_to_points + index * header.point_data_record_length)
    ELSE mmap.records[index + 1]

\* the bytes a mapping reads once the file behind it holds content: None
\* for the bytes it was mapped on, Some(data) after a write of data.  The
\* mapping keeps its length; the bytes past the written ones read as zero,
\* so no VLR is found.
Remapped(mmap, content) ==
    IF ~content.some THEN mmap
    ELSE [TextFile(content.val) EXCEPT
            !.size = mmap.size, !.ino = mmap.ino, !.is_laz = mmap.is_laz]

\* the reads of one record in read_points in their order, and the bytes of
\* each; of a colour channel the second byte is the one kept
RecordReads == << "xi", "yi", "zi", "intensity", "classification", "r", "g", "b" >>
RecordReadBytes == << 4, 4, 4, 2, 1, 2, 2, 2 >>

\* the points of a batch read at which a write of the mapped file can fall:
\* in record i (from 0), before read k, after its first j bytes
RecordCuts(n) ==
    { << i, k, j >> \in (0..(n - 1)) \X (1..Len(RecordReads)) \X (0..4) :
        j <= RecordReadBytes[k] }

\* a stored record read as a up to the cut and as b from it on; the
\* classification is one byte, 15 or 16 as the format has it
TornRecord(a, b, k, j) ==
    LET int(n, u, v) == IF n < k THEN u ELSE IF n > k THEN v ELSE TornInt(u, v, j)
        whole(n, u, v) == IF n < k \/ (n = k /\ j = RecordReadBytes[k]) THEN u ELSE v
    IN  RawRecord(int(1, a.xi, b.xi), int(2, a.yi, b.yi), int(3, a.zi, b.zi),
                  int(4, a.intensity, b.intensity),
                  whole(5, a.b15, b.b15), whole(5, a.b16, b.b16),
                  whole(6, a.r, b.r), whole(7, a.g, b.g), whole(8, a.b, b.b))

\* read_points while the mapping, which reads as that of parser when the
\* call begins, comes to read as that of written: the outcomes the call can
\* have.  The records are those before the first one that does not fit in
\* the mapping, each field as the mapping reads at the time of its read.
\* panic is an index past a record slice; sigbus is a read of a mapped byte
\* past the pages of the file.  Of a record shorter than the fields read,
\* the bytes before the failing index are read or not as the build has it.
read_points_racing(parser, written, start_index, count) ==
    LET h == parser.header
        m == parser.mmap
        record_len == h.point_data_record_length
        data_start == h.offset_to_points
        total == h.number_of_points
        actual_count == Min(count, IF total >= start_index THEN total - start_index ELSE 0)
        fits == { i \in 0..(actual_count - 1) :
                    data_start + (start_index + i) * record_len + record_len <= m.size }
        n == Cardinality(fits)
        short == record_len < RecordBytesRead(h.point_data_format)
        ShortFault(img) == data_start + start_index * record_len + Min(record_len, 14)
                             > ValidBytes(img.mmap)
        FaultAt(img, i) == data_start + (start_index + i) * record_len + BytesNeeded(h)
                             > ValidBytes(img.mmap)
        out(panic, sigbus, points) == [panic |-> panic, sigbus |-> sigbus, points |-> points]
        a == [i \in 1..n |-> RecordAt(m, h, start_index + i - 1)]
        b == [i \in 1..n |-> RecordAt(written.mmap, h, start_index + i - 1)]
        first == << 1, 0 >>
        last == << Len(RecordReads), RecordReadBytes[Len(RecordReads)] >>
        Faults(cut) ==
            \/ \E i \in 0..(n - 1) : i < cut[1] /\ FaultAt(parser, i)
            \/ \E i \in 0..(n - 1) : i > cut[1] /\ FaultAt(written, i)
            \/ << cut[2], cut[3] >> # first /\ FaultAt(parser, cut[1])
            \/ << cut[2], cut[3] >> # last /\ FaultAt(written, cut[1])
        Torn(cut) ==
            [i \in 1..n |->
                decode_record(h, IF i - 1 < cut[1] THEN a[i]
                                 ELSE IF i - 1 > cut[1] THEN b[i]
                                 ELSE TornRecord(a[i], b[i], cut[2], cut[3]))]
    IN  IF fits = {} THEN { out(FALSE, FALSE, << >>) }
        ELSE IF record_len = 0 THEN { out(TRUE, FALSE, << >>) }
        ELSE IF short
        THEN { out(TRUE, FALSE, << >>) }
               \cup { out(FALSE, TRUE, << >>) : img \in { i \in { parser, written } :
                                                            ShortFault(i) } }
        ELSE { IF Faults(cut) THEN out(FALSE, TRUE, << >>)
               ELSE out(FALSE, FALSE, Torn(cut)) :
                 cut \in IF parser = written THEN { << 0, first[1], first[2] >> }
                         ELSE RecordCuts(n) }

\* read_points on a mapping nothing writes meanwhile
read_points(parser, start_index, count) ==
    read_points_racing(parser, parser, start_index, count)

\* read_laz_all_points: find_laszip_vlr, LazVlr::from_buffer,
\* LasZipDecompressor::new, then one decompress_one and one decode per
\* header-announced point
read_laz_all_points(parser) ==
    LET h == parser.header
        m == parser.mmap
        total == h.number_of_points
        present == Len(m.records)
    IN  IF ValidBytes(m) <= 100 THEN Abort("sigbus")
        ELSE IF ~m.has_laszip_vlr THEN Err("LASzip VLR not found in LAZ file")
        ELSE IF m.vlr_error # ""
        THEN Err("Failed to parse LASzip VLR: " \o m.vlr_error)
        ELSE IF m.decompressor_error # ""
        THEN Err("Failed to create LAZ decompressor: " \o m.decompressor_error)
        ELSE IF total = 0 THEN Ok(<< >>)
        ELSE IF present = 0 THEN Err("LAZ decompression error: " \o LazEofMessage)
        ELSE IF h.point_data_record_length < RecordBytesRead(h.point_data_format)
        THEN Abort("panic")
        ELSE IF present < total THEN Err("LAZ decompression error: " \o LazEofMessage)
        ELSE Ok(decode_records(h, SubSeq(m.records, 1, total)))

\* where the VLRs begin, lines 250-251
vlr_start(header) == IF header.version_minor >= 3 THEN 235 ELSE 227

\* the errors the calls of the laz crate report of bytes that LASzip did
\* not write
LazErrors == { LazEofMessage }

\* the records decompress_one can yield of a stored record that reads as a
\* at one time and as b at another: what the bytes of the file are to the
\* bytes of the record is the matter of the compression, so every byte of
\* the record is that of a or that of b
LazTorn(a, b) ==
    { RawRecord(xi, yi, zi, intensity, b15, b16, r, g, bl) :
        xi \in { TornInt(a.xi, b.xi, j) : j \in 0..4 },
        yi \in { TornInt(a.yi, b.yi, j) : j \in 0..4 },
        zi \in { TornInt(a.zi, b.zi, j) : j \in 0..4 },
        intensity \in { a.intensity, b.intensity,
                        TornInt(a.intensity, b.intensity, 1) },
        b15 \in { a.b15, b.b15 }, b16 \in { a.b16, b.b16 },
        r \in { a.r, b.r }, g \in { a.g, b.g }, bl \in { a.b, b.b } }

\* read_laz_all_points while the mapping, which reads as that of parser
\* when the call begins, comes to read as that of written: the outcomes the
\* call can have.  Its reads of the mapping are, in their order, the number
\* of VLRs and the VLR headers (lines 252-267), the data of the LASzip VLR
\* (line 269), the start of the point data by LasZipDecompressor::new (line
\* 290) and the point data by decompress_one (line 313), once for each
\* point; the write falls before one of them, within the read of a record,
\* or after the last.  A read past the pages of the file is a SIGBUS.  Of
\* bytes that LASzip did not write a call of the laz crate returns an error
\* or goes on, decompress_one with the bytes the file holds.
read_laz_all_points_racing(parser, written) ==
    LET h == parser.header
        m == parser.mmap
        w == written.mmap
        total == h.number_of_points
        present == Len(m.records)
        whole == read_laz_all_points(parser)
        short == h.point_data_record_length < RecordBytesRead(h.point_data_format)
        Fault(pos) == ValidBytes(w) <= pos
        Failed(text) == { Err(text \o e) : e \in LazErrors }
        \* the records of the call: those before record i as stored, record
        \* i as rec, the others as the mapping reads at the end
        Records(i, rec) ==
            [n \in 1..total |->
                IF n - 1 < i THEN m.records[n]
                ELSE IF n - 1 = i THEN rec
                ELSE RecordAt(w, h, n - 1)]
        \* the decompression of the points from record i on after the
        \* write, record i being one of recs
        Points(i, recs) ==
            IF Fault(h.offset_to_points) THEN { Abort("sigbus") }
            ELSE Failed("LAZ decompression error: ")
                   \cup IF short THEN { Abort("panic") }
                        ELSE { Ok(decode_records(h, Records(i, rec))) : rec \in recs }
        \* the write falls before the read of the point data
        Foreign ==
            IF Fault(h.offset_to_points) THEN { Abort("sigbus") }
            ELSE Failed("Failed to create LAZ decompressor: ")
                   \cup IF total = 0 THEN { Ok(<< >>) }
                        ELSE Points(0, { RecordAt(w, h, 0) })
        found == ValidBytes(m) > 100 /\ m.has_laszip_vlr
        BeforeHeaders == { read_laz_all_points(written) }
        BeforeVlrData ==
            IF ~found THEN { }
            ELSE IF Fault(vlr_start(h) + 54) THEN { Abort("sigbus") }
            ELSE Failed("Failed to parse LASzip VLR: ") \cup Foreign
        BeforePointData ==
            IF ~found \/ m.vlr_error # "" THEN { }
            ELSE Foreign
        WithinPointData ==
            IF ~found \/ m.vlr_error # "" \/ m.decompressor_error # "" THEN { }
            ELSE UNION { Points(i, IF i < present
                                   THEN LazTorn(m.records[i + 1], RecordAt(w, h, i))
                                   ELSE { RecordAt(w, h, i) }) :
                           i \in { n \in 0..(total - 1) : n <= present } }
    IN  BeforeHeaders \cup BeforeVlrData \cup BeforePointData
          \cup WithinPointData \cup { whole }

(***************************************************************************)
(* octree.rs: queries on a built tree                                      *)
(***************************************************************************)
starts_with(str, prefix) ==
    Len(prefix) <= Len(str) /\ SubSeq(str, 1, Len(prefix)) = prefix

\* find_node: the arena index of the node found, 0 for None
RECURSIVE find_node(_, _, _)
RECURSIVE find_in_children(_, _, _, _)
find_in_children(t, n, node_id, m) ==
    IF m > 8 THEN 0
    ELSE LET c == t.nodes[n].children[m]
             found == IF c # 0 /\ starts_with(node_id, t.nodes[c].node_id)
                      THEN find_node(t, c, node_id) ELSE 0
         IN  IF found # 0 THEN found ELSE find_in_children(t, n, node_id, m + 1)

\* mutant: a node whose id is a prefix of the id asked for is found when no
\* node below it is
find_node_Prefix(t, n, node_id) ==
    IF t.nodes[n].node_id = node_id THEN n
    ELSE LET below == find_in_children(t, n, node_id, 1)
         IN  IF below # 0 THEN below
             ELSE IF starts_with(node_id, t.nodes[n].node_id) THEN n ELSE 0

find_node(t, n, node_id) ==
    IF t.nodes[n].node_id = node_id THEN n
    ELSE find_in_children(t, n, node_id, 1)

size(bb) == << bb.max_x - bb.min_x, bb.max_y - bb.min_y, bb.max_z - bb.min_z >>

Max(a, b) == IF a > b THEN a ELSE b

max_extent(bb) == LET s == size(bb) IN Max(Max(s[1], s[2]), s[3])

\* dims[0] * dims[1] after the descending sort of the three side lengths
surface_area(bb) ==
    LET s == size(bb)
        lo == Min(Min(s[1], s[2]), s[3])
        hi == Max(Max(s[1], s[2]), s[3])
        mid == s[1] + s[2] + s[3] - lo - hi
    IN  hi * mid

\* the loop that pushes each point's fields onto the four arrays
RECURSIVE pack_points(_, _, _)
pack_points(ps, c, acc) ==
    IF ps = << >> THEN acc
    ELSE LET p == Head(ps)
         IN  pack_points(Tail(ps), c,
                 [positions |-> acc.positions \o << p.x - c[1], p.y - c[2], p.z - c[3] >>,
                  colors |-> acc.colors \o << p.r, p.g, p.b >>,
                  intensities |-> Append(acc.intensities, p.intensity),
                  classifications |-> Append(acc.classifications, p.classification)])

\* get_node_chunk: None, or the chunk.  Positions are exact in f32 on the
\* grid; spacing = sqrt(surface_area / count) is kept as the fraction under
\* the root.
get_node_chunk(t, node_id) ==
    LET n == find_node(t, 1, node_id)
    IN  IF n = 0 THEN None
        ELSE IF t.nodes[n].points = << >> THEN None
        ELSE LET node == t.nodes[n]
                 c == center(node.bounds)
                 count == Len(node.points)
                 arrays == pack_points(node.points, c,
                               [positions |-> << >>, colors |-> << >>,
                                intensities |-> << >>, classifications |-> << >>])
             IN  Some([node_id |-> node_id, center |-> c, level |-> node.level,
                  spacing |-> [sqrt_num |-> surface_area(node.bounds), sqrt_den |-> count],
                  positions |-> arrays.positions, colors |-> arrays.colors,
                  intensities |-> arrays.intensities,
                  classifications |-> arrays.classifications,
                  point_count |-> count])

get_node_info(t, node_id) ==
    LET n == find_node(t, 1, node_id)
    IN  IF n = 0 THEN None
        ELSE Some([node_id |-> t.nodes[n].node_id, bounds |-> t.nodes[n].bounds,
                   level |-> t.nodes[n].level, point_count |-> point_count(t.nodes[n]),
                   has_children |-> has_children(t.nodes[n])])

(***************************************************************************)
(* octree.rs: LOD selection.  Distances are kept squared; a camera carries *)
(* tan(fov/2) as the fraction tan_num / tan_den.                           *)
(***************************************************************************)
CameraState(px, py, pz, fov, tn, td, screen_height) ==
    [position |-> << px, py, pz >>, target |-> << 0, 0, 0 >>, fov |-> fov,
     tan_num |-> tn, tan_den |-> td, aspect |-> 1, screen_height |-> screen_height]

\* the squared distance from the camera to the centre of the node's box
distance2(node, camera) ==
    LET c == center(node.bounds)
        dx == c[1] - camera.position[1]
        dy == c[2] - camera.position[2]
        dz == c[3] - camera.position[3]
    IN  dx * dx + dy * dy + dz * dz

\* screen_size < k, for screen_size = node_size / distance * screen_height
\*   / (2 * tan(fov / 2)), and f64::MAX when distance <= 0.001
screen_size_below(node, camera, k) ==
    LET d2 == distance2(node, camera)
        lhs == max_extent(node.bounds) * camera.screen_height * camera.tan_den
        rhs == 2 * camera.tan_num * k
        g == GCD(lhs, rhs)
    IN  d2 > 0 /\ (lhs \div g) * (lhs \div g) < (rhs \div g) * (rhs \div g) * d2

\* priority = distance / node_size.max(0.001), kept as d2 and the
\* denominator in thousandths
priority(node, camera) ==
    [d2 |-> distance2(node, camera),
     den |-> Max(1000 * max_extent(node.bounds), 1)]

priority_less(a, b) ==
    LET g == GCD(a.den, b.den)
    IN  a.d2 * (b.den \div g) * (b.den \div g) < b.d2 * (a.den \div g) * (a.den \div g)

RECURSIVE collect_visible(_, _, _)
RECURSIVE collect_children(_, _, _, _)
collect_children(t, n, camera, m) ==
    IF m > 8 THEN << >>
    ELSE LET c == t.nodes[n].children[m]
         IN  (IF c # 0 THEN collect_visible(t, c, camera) ELSE << >>)
               \o collect_children(t, n, camera, m + 1)

\* mutant: the test for a node below one pixel is missing
collect_visible_NoCull(t, n, camera) ==
    LET node == t.nodes[n]
        should_use_node == is_leaf(node) \/ screen_size_below(node, camera, 200)
    IN  IF node.points = << >> /\ ~has_children(node) THEN << >>
        ELSE (IF should_use_node /\ node.points # << >>
              THEN << [id |-> node.node_id, priority |-> priority(node, camera),
                       count |-> point_count(node)] >>
              ELSE << >>)
             \o (IF ~should_use_node \/ ~is_leaf(node)
                 THEN collect_children(t, n, camera, 1) ELSE << >>)

\* mutant: the descent ends at every node that is used, leaf or not
collect_visible_StopAtUsed(t, n, camera) ==
    LET node == t.nodes[n]
        should_use_node == is_leaf(node) \/ screen_size_below(node, camera, 200)
    IN  IF node.points = << >> /\ ~has_children(node) THEN << >>
        ELSE IF screen_size_below(node, camera, 1) THEN << >>
        ELSE (IF should_use_node /\ node.points # << >>
              THEN << [id |-> node.node_id, priority |-> priority(node, camera),
                       count |-> point_count(node)] >>
              ELSE << >>)
             \o (IF ~should_use_node
                 THEN collect_children(t, n, camera, 1) ELSE << >>)

collect_visible(t, n, camera) ==
    LET node == t.nodes[n]
        should_use_node == is_leaf(node) \/ screen_size_below(node, camera, 200)
    IN  IF node.points = << >> /\ ~has_children(node) THEN << >>
        ELSE IF screen_size_below(node, camera, 1) THEN << >>
        ELSE (IF should_use_node /\ node.points # << >>
              THEN << [id |-> node.node_id, priority |-> priority(node, camera),
                       count |-> point_count(node)] >>
              ELSE << >>)
             \o (IF ~should_use_node \/ ~is_leaf(node)
                 THEN collect_children(t, n, camera, 1) ELSE << >>)

\* the stable sort by priority, as an insertion sort
RECURSIVE sort_by_priority(_)
sort_by_priority(cs) ==
    IF cs = << >> THEN << >>
    ELSE LET rest == sort_by_priority(SubSeq(cs, 1, Len(cs) - 1))
             last == cs[Len(cs)]
             cut == IF \E i \in 1..Len(rest) : priority_less(last.priority, rest[i].priority)
                    THEN (CHOOSE i \in 1..Len(rest) :
                            /\ priority_less(last.priority, rest[i].priority)
                            /\ \A j \in 1..(i - 1) :
                                 ~priority_less(last.priority, rest[j].priority)) - 1
                    ELSE Len(rest)
         IN  SubSeq(rest, 1, cut) \o << last >> \o SubSeq(rest, cut + 1, Len(rest))

RECURSIVE accumulate(_, _, _, _)
\* mutant: the first candidate is subject to the budget like the others
accumulate_NoFirst(cs, point_budget, total, result) ==
    IF cs = << >> THEN result
    ELSE IF total + Head(cs).count > point_budget THEN result
    ELSE accumulate(Tail(cs), point_budget, total + Head(cs).count,
                    Append(result, Head(cs).id))

\* mutant: a candidate that does not fit is skipped and the loop goes on
accumulate_SkipOversized(cs, point_budget, total, result) ==
    IF cs = << >> THEN result
    ELSE IF total + Head(cs).count > point_budget /\ result # << >>
    THEN accumulate(Tail(cs), point_budget, total, result)
    ELSE accumulate(Tail(cs), point_budget, total + Head(cs).count,
                    Append(result, Head(cs).id))

accumulate(cs, point_budget, total, result) ==
    IF cs = << >> THEN result
    ELSE IF total + Head(cs).count > point_budget /\ result # << >> THEN result
    ELSE accumulate(Tail(cs), point_budget, total + Head(cs).count,
                    Append(result, Head(cs).id))

Octree_get_visible_nodes(t, camera, point_budget) ==
    accumulate(sort_by_priority(collect_visible(t, 1, camera)), point_budget, 0, << >>)

(***************************************************************************)
(* manager.rs: the registry.  A progress value is the exact fraction the   *)
(* f64 expression denotes, in lowest terms.                                *)
(***************************************************************************)
Frac(n, d) == LET g == GCD(n, d) IN [num |-> n \div g, den |-> d \div g]

FracLE(a, b) == a.num * b.den <= b.num * a.den
FracLT(a, b) == a.num * b.den < b.num * a.den

Progress_0_0 == Frac(0, 1)
Progress_0_5 == Frac(1, 2)
Progress_1_0 == Frac(1, 1)

IndexProgress(progress, phase, points_processed, total) ==
    [progress |-> progress, phase |-> phase,
     points_processed |-> points_processed, total_points |-> total]

PointcloudEntry(meta, octree, progress) ==
    [metadata |-> meta, octree |-> octree, progress |-> progress]

PcId(counter) == "pc_" \o ToString(counter)

\* the writes of the worker's critical sections, applied to its entry
\* mutant: the phase write replaces the whole progress record
SetReadingPhase_FreshProgress(entry) ==
    [entry EXCEPT !.progress = IndexProgress(Progress_0_0, "Reading points", 0, 0)]

SetReadingPhase(entry) == [entry EXCEPT !.progress.phase = "Reading points"]

\* mutant: the batch progress is not scaled to the first half
WriteBatchProgress_Unscaled(entry, offset, batch_len, total) ==
    [entry EXCEPT !.progress.points_processed = offset + batch_len,
                  !.progress.progress = Frac(offset + batch_len, total)]

\* (offset + batch.len()) as f64 / total as f64 * 0.5
WriteBatchProgress(entry, offset, batch_len, total) ==
    [entry EXCEPT !.progress.points_processed = offset + batch_len,
                  !.progress.progress = Frac(offset + batch_len, 2 * total)]

SetBuildingPhase(entry) ==
    [entry EXCEPT !.progress.phase = "Building octree",
                  !.progress.progress = Progress_0_5]

\* mutant: the final write marks the entry complete and installs nothing
StoreOctree_PhaseOnly(entry, octree) ==
    [entry EXCEPT !.progress.phase = "Complete",
                  !.progress.progress = Progress_1_0]

StoreOctree(entry, octree) ==
    [entry EXCEPT !.octree = Some(octree),
                  !.progress.phase = "Complete",
                  !.progress.progress = Progress_1_0]

\* mutant: the error handler also marks the progress as finished
SetErrorPhase_Finished(entry, e) ==
    [entry EXCEPT !.progress.phase = "Error: " \o e,
                  !.progress.progress = Progress_1_0]

SetErrorPhase(entry, e) == [entry EXCEPT !.progress.phase = "Error: " \o e]

\* if let Some(entry) = entries.get_mut(id) { write(entry) }
UpdateEntry(es, id, write(_)) ==
    IF id \in DOMAIN es THEN [es EXCEPT ![id] = write(@)] ELSE es

\* HashMap::insert and HashMap::remove
MapInsert(es, id, entry) ==
    [k \in DOMAIN es \cup { id } |-> IF k = id THEN entry ELSE es[k]]

\* mutant: close looks the entry up and leaves it in the map
MapRemove_Keep(es, id) == es

MapRemove(es, id) == [k \in DOMAIN es \ { id } |-> es[k]]

\* the read operations, as functions of the registry
get_progress(es, id) == IF id \in DOMAIN es THEN Some(es[id].progress) ELSE None

\* mutant: the loop gives up at the first id that has no chunk
RECURSIVE collect_chunks_StopAtMissing(_, _)
collect_chunks_StopAtMissing(octree, node_ids) ==
    IF node_ids = << >> THEN << >>
    ELSE LET chunk == get_node_chunk(octree, Head(node_ids))
         IN  IF chunk.some
             THEN << chunk.val >> \o collect_chunks_StopAtMissing(octree, Tail(node_ids))
             ELSE << >>

RECURSIVE collect_chunks(_, _)
collect_chunks(octree, node_ids) ==
    IF node_ids = << >> THEN << >>
    ELSE LET chunk == get_node_chunk(octree, Head(node_ids))
         IN  (IF chunk.some THEN << chunk.val >> ELSE << >>)
               \o collect_chunks(octree, Tail(node_ids))

get_nodes(es, id, node_ids) ==
    IF id \notin DOMAIN es THEN Err("Pointcloud not found")
    ELSE IF ~es[id].octree.some THEN Err("Octree not yet built")
    ELSE Ok(collect_chunks(es[id].octree.val, node_ids))

RECURSIVE collect_infos(_, _)
collect_infos(octree, node_ids) ==
    IF node_ids = << >> THEN << >>
    ELSE LET info == get_node_info(octree, Head(node_ids))
         IN  (IF info.some THEN << info.val >> ELSE << >>)
               \o collect_infos(octree, Tail(node_ids))

get_visible_nodes(es, id, camera, point_budget) ==
    IF id \notin DOMAIN es THEN Err("Pointcloud not found")
    ELSE IF ~es[id].octree.some THEN Err("Octree not yet built")
    ELSE Ok(collect_infos(es[id].octree.val,
              Octree_get_visible_nodes(es[id].octree.val, camera, point_budget)))

\* the metadata of all entries; the HashMap's iteration order is unspecified
list(es) == { es[id].metadata : id \in DOMAIN es }

(***************************************************************************)
(* commands.rs: pack_chunks_binary.  A byte is a number in 0..255.  An f32 *)
(* or f64 value is given by the integer it denotes and encoded as its IEEE *)
(* 754 bit pattern; the values that occur are integers below 2^20.         *)
(***************************************************************************)
PointChunk(node_id, centre, level, spacing, positions, colors, intensities, classifications, count) ==
    [node_id |-> node_id, center |-> centre, level |-> level, spacing |-> spacing,
     positions |-> positions, colors |-> colors, intensities |-> intensities,
     classifications |-> classifications, point_count |-> count]

\* the UTF-8 code of the characters node ids are made of
Utf8 ==
    [ c \in { "r", "0", "1", "2", "3", "4", "5", "6", "7" } |->
        IF c = "r" THEN 114
        ELSE 48 + (CHOOSE d \in 0..7 : ToString(d) = c) ]

as_bytes(str) == [ i \in 1..Len(str) |-> Utf8[SubSeq(str, i, i)] ]

u32_to_le_bytes(v) ==
    << v % 256, (v \div 256) % 256, (v \div 65536) % 256, (v \div 16777216) % 256 >>

\* mutant: the high byte is written first
u16_to_le_bytes_BigEndian(v) == << (v \div 256) % 256, v % 256 >>

u16_to_le_bytes(v) == << v % 256, (v \div 256) % 256 >>

\* sign bit, 8 exponent bits (bias 127), 23 fraction bits, low byte first
f32_to_le_bytes(v) ==
    IF v = 0 THEN << 0, 0, 0, 0 >>
    ELSE LET a == IF v < 0 THEN 0 - v ELSE v
             e == FloorLog2(a)
             biased == e + 127
             fraction == (a - Pow2(e)) * Pow2(23 - e)
         IN  << fraction % 256, (fraction \div 256) % 256,
                (biased % 2) * 128 + (fraction \div 65536),
                (IF v < 0 THEN 128 ELSE 0) + (biased \div 2) >>

RECURSIVE f32_array(_)
f32_array(vals) ==
    IF vals = << >> THEN << >> ELSE f32_to_le_bytes(Head(vals)) \o f32_array(Tail(vals))

RECURSIVE f64_array(_)
f64_array(vals) ==
    IF vals = << >> THEN << >> ELSE f64_to_le_bytes(Head(vals)) \o f64_array(Tail(vals))

RECURSIVE u16_array(_)
u16_array(vals) ==
    IF vals = << >> THEN << >> ELSE u16_to_le_bytes(Head(vals)) \o u16_array(Tail(vals))

Zeros(k) == [ i \in 1..k |-> 0 ]

\* (n + 3) & !3
RoundUp4(n) == ((n + 3) \div 4) * 4

\* lines 70-78: the padded size of one chunk
chunk_padded(chunk) ==
    LET id_bytes == Len(as_bytes(chunk.node_id))
        id_padded == RoundUp4(id_bytes)
        data_size == chunk.point_count * 12 + chunk.point_count * 3
                       + chunk.point_count * 2 + chunk.point_count * 1
        chunk_size == 4 + id_padded + 24 + 4 + 4 + 4 + data_size
    IN  RoundUp4(chunk_size)

\* lines 68-79
RECURSIVE pack_total_size(_)
pack_total_size(chunks) ==
    IF chunks = << >> THEN 4
    ELSE pack_total_size(SubSeq(chunks, 1, Len(chunks) - 1))
           + chunk_padded(chunks[Len(chunks)])

\* mutant: the chunk is not padded at its end
pack_chunk_NoTailPad(buf, chunk) ==
    LET id_bytes == as_bytes(chunk.node_id)
        padding == (4 - (Len(id_bytes) % 4)) % 4
    IN  buf \o u32_to_le_bytes(Len(id_bytes)) \o id_bytes \o Zeros(padding)
            \o f64_array(chunk.center)
            \o u32_to_le_bytes(chunk.level)
            \o f32_to_le_bytes(chunk.spacing)
            \o u32_to_le_bytes(chunk.point_count)
            \o f32_array(chunk.positions)
            \o chunk.colors
            \o u16_array(chunk.intensities)
            \o chunk.classifications

\* lines 85-132: one iteration of the loop over the chunks
pack_chunk(buf, chunk) ==
    LET id_bytes == as_bytes(chunk.node_id)
        padding == (4 - (Len(id_bytes) % 4)) % 4
        body == buf \o u32_to_le_bytes(Len(id_bytes)) \o id_bytes \o Zeros(padding)
                    \o f64_array(chunk.center)
                    \o u32_to_le_bytes(chunk.level)
                    \o f32_to_le_bytes(chunk.spacing)
                    \o u32_to_le_bytes(chunk.point_count)
                    \o f32_array(chunk.positions)
                    \o chunk.colors
                    \o u16_array(chunk.intensities)
                    \o chunk.classifications
        remainder == Len(body) % 4
    IN  body \o Zeros(IF remainder # 0 THEN 4 - remainder ELSE 0)

RECURSIVE pack_loop(_, _)
pack_loop(buf, chunks) ==
    IF chunks = << >> THEN buf
    ELSE pack_loop(pack_chunk(buf, Head(chunks)), Tail(chunks))

pack_chunks_binary(chunks) == pack_loop(u32_to_le_bytes(Len(chunks)), chunks)

(***************************************************************************)
(* api_server.rs: the pending evals of ApiServerState.  pending_evals maps *)
(* an eval id to the request whose Arc<Mutex<EvalResult>> it holds; the    *)
(* EvalResult of request r is handles[r].                                  *)
(***************************************************************************)
HexDigit(d) == SubSeq("0123456789abcdef", d + 1, d + 1)

\* format!("{:x}", t)
RECURSIVE Hex(_)
Hex(t) == IF t < 16 THEN HexDigit(t) ELSE Hex(t \div 16) \o HexDigit(t % 16)

\* uuid_simple at a reading t of the system clock, in nanoseconds
uuid_simple(t) == Hex(t)

\* the id register_eval forms
eval_id_at(t) == "eval_" \o uuid_simple(t)

EvalResult(ready, value) == [ready |-> ready, value |-> value]

\* deliver_result: the write to the EvalResult the map holds for id, if any
deliver_result(pending, hs, id, value) ==
    IF id \in DOMAIN pending
    THEN [hs EXCEPT ![pending[id]] = EvalResult(TRUE, Some(value))]
    ELSE hs

cleanup_eval(pending, id) == MapRemove(pending, id)

\* lines 254-277: the payload the wrapper of a script passes to
\* api_eval_callback.  The script is the body of an async function: what it
\* returns is serialised, and the serialisation is a string member of the
\* payload; without a return the result is undefined, which JSON.stringify
\* leaves out; the message of an error thrown becomes the error member.
Payload(script) ==
    CASE script = "return 1" -> "{\"success\":true,\"result\":\"1\"}"
      [] script = "return 2" -> "{\"success\":true,\"result\":\"2\"}"
      [] script = "1+1" -> "{\"success\":true}"
      [] script = "throw new Error('no')" -> "{\"success\":false,\"error\":\"no\"}"

\* the bodies the handler forms itself
NullBody == "{\"success\":true,\"result\":null}"
TimeoutBody == "{\"success\":false,\"error\":\"Eval timed out after 30s\"}"

\* e.to_string().replace('"', "\\\"")
RECURSIVE EscapeQuotes(_)
EscapeQuotes(e) ==
    IF e = "" THEN ""
    ELSE (IF SubSeq(e, 1, 1) = "\"" THEN "\\\"" ELSE SubSeq(e, 1, 1))
           \o EscapeQuotes(SubSeq(e, 2, Len(e)))

\* lines 282-285: the body of the answer to a failed window.eval
EvalFailedBody(e) ==
    "{\"success\":false,\"error\":\"Failed to eval in webview: "
        \o EscapeQuotes(e) \o "\"}"

\* lines 244-245
NoScriptBody ==
    "{\"success\":false,\"error\":\"No script provided. Send {\\\"script\\\":\\\"...\\\"}\"}"

(***************************************************************************)
(* State                                                                   *)
(***************************************************************************)
VARIABLES
    entries,    \* PointcloudManager.entries: id -> PointcloudEntry
    next_id,    \* PointcloudManager.next_id
    lock,       \* writer of the entries RwLock: Free, or the id of a worker
    opens,      \* the open calls in flight: their position and locals
    wk,         \* per spawned worker: position and locals of build_octree
    ret,        \* the value the call returned that returned in the last step
    issued,     \* history: the counter values and ids allocated, in order
    closed,     \* history: the ids whose entry was removed by close
    tree,       \* Octree::build: the tree under construction
    pending,    \* Octree::build: the points still to insert
    inserted,   \* Octree::build: the points inserted so far
    stage,      \* Octree::build: "idle", "insert" or "built"
    pack,       \* pack_chunks_binary: its argument, locals and position
    stream,     \* stream_points: its arguments, locals and the calls of cb
    twin,       \* stream_points on the compressed twin of the file of stream
    pending_evals,  \* ApiServerState.pending_evals: eval id -> request
    handles,    \* per request: the EvalResult behind its Arc
    evals,      \* per request thread of POST /eval: position and locals
    webview,    \* the scripts running in the webview: their calls to come
    clock,      \* the last reading of the system clock
    fs          \* the files as written and removed, and save_file in flight

vars == << entries, next_id, lock, opens, wk, ret, issued, closed,
           tree, pending, inserted, stage, pack, stream, twin,
           pending_evals, handles, evals, webview, clock, fs >>

mgrVars == << entries, next_id, lock, opens, wk, ret, issued, closed >>
buildVars == << tree, pending, inserted, stage >>
apiVars == << pending_evals, handles, evals, webview, clock >>
fnVars == << pack, stream, twin, apiVars, fs >>

Free == "free"
AllIds == { PcId(n) : n \in 1..MaxOpens }

NoRet == [op |-> "none"]

EmptyMap == [k \in {} |-> None]

MgrInit ==
    /\ entries = EmptyMap
    /\ next_id = 1
    /\ lock = Free
    /\ opens = {}
    /\ wk = EmptyMap
    /\ ret = NoRet
    /\ issued = << >>
    /\ closed = {}

BuildIdle ==
    /\ tree = Octree_new(0, RootBounds)
    /\ pending = << >>
    /\ inserted = << >>
    /\ stage = "idle"

\* neither pack_chunks_binary nor stream_points has been called
\* ApiServerState::new, and the request threads not yet started
ApiInit ==
    /\ pending_evals = EmptyMap
    /\ handles = [r \in 1..MaxRequests |-> EvalResult(FALSE, None)]
    /\ evals = [r \in 1..MaxRequests |->
                  [pc |-> "recv", script |-> "", eval_id |-> "", resp_body |-> "",
                   status |-> 0]]
    /\ webview = {}
    /\ clock = 0

\* no file has been written or removed and save_file is not running.  dir
\* holds the paths whose name was removed or given to a new file, content
\* the bytes of the files written, by path and ino.
FsInit ==
    fs = [dir |-> [p \in {} |-> None], content |-> [f \in {} |-> ""],
          save |-> [pc |-> "idle"], shell |-> [pc |-> "idle"], calls |-> 0,
          result |-> None]

FnIdle ==
    /\ pack = [pc |-> "idle"]
    /\ stream = [pc |-> "idle"]
    /\ twin = [pc |-> "idle"]
    /\ ApiInit
    /\ FsInit

\* what path names: the ino of the last file of that name, and whether the
\* name is still there
DirEntry(path) ==
    IF path \in DOMAIN fs.dir THEN fs.dir[path]
    ELSE [ino |-> 0, present |-> Files[path].exists]

\* the bytes written to the file ino of path: None when it was never written
Content(path, ino) ==
    IF << path, ino >> \in DOMAIN fs.content THEN Some(fs.content[<< path, ino >>])
    ELSE None

\* the file that path names now
Disk(path) ==
    LET d == DirEntry(path)
    IN  IF ~d.present THEN NoFile
        ELSE IF Content(path, d.ino).some
        THEN [TextFile(Content(path, d.ino).val) EXCEPT !.ino = d.ino]
        ELSE Files[path]

\* the mapping of path as it reads now
LiveMap(path, mmap) == Remapped(mmap, Content(path, mmap.ino))

\* the parser as its mapping reads now
Live(parser) == [parser EXCEPT !.mmap = LiveMap(parser.mapped_path, @)]

\* the process has not been killed by a SIGBUS
Running ==
    /\ \A call \in opens : call.pc # "sigbus"
    /\ \A id \in DOMAIN wk : wk[id].pc # "sigbus"
    /\ stream.pc # "sigbus"
    /\ twin.pc # "sigbus"

Init == MgrInit /\ BuildIdle /\ FnIdle

(***************************************************************************)
(* The answer of a read-only query.  A query leaves every variable of the  *)
(* program as it is, and its command hands the answer to the caller        *)
(* (pointcloud/commands.rs), which is the next step: the steps of the      *)
(* other threads are those they take from the state before the query, and  *)
(* there they are taken.                                                   *)
(***************************************************************************)
QueryOps == { "get_progress", "get_nodes", "get_visible_nodes", "list" }
AfterQuery == ret.op \in QueryOps

\* a thread takes a step: the process has not been killed and no answer
\* waits for its caller
CanStep == Running /\ ~AfterQuery

\* the command returns the answer of the manager to its caller
QueryReturned ==
    /\ Running
    /\ AfterQuery
    /\ ret' = NoRet
    /\ UNCHANGED << entries, next_id, lock, opens, wk, issued, closed, buildVars, fnVars >>

(***************************************************************************)
(* PointcloudManager::open.  A call in flight is known by its locals; at   *)
(* most MaxCallers calls are in flight at once.  Between the id, the       *)
(* mapping of the file, the parse of its header, the insert under the      *)
(* write lock, the spawn of the worker and the return the other threads    *)
(* run.  Calls overlap in SpecHeader; in Spec, where the workers, the      *)
(* queries, close, save_file and execute_shell run between the steps of a  *)
(* call, a call begins when none is in flight.                             *)
(***************************************************************************)
OpenCall(id, file_path) ==
    [id |-> id, file_path |-> file_path, pc |-> "map", mmap |-> None, parser |-> None]

\* mutant: the counter is read and not advanced
OpenAllocId_NoIncrement(file_path) ==
    /\ CanStep
    /\ Cardinality(opens) < MaxCallers
    /\ next_id <= MaxOpens
    /\ Len(issued) <= MaxOpens
    /\ opens' = opens \cup { OpenCall(PcId(next_id), file_path) }
    /\ next_id' = next_id
    /\ issued' = Append(issued, [n |-> next_id, id |-> PcId(next_id)])
    /\ ret' = NoRet
    /\ UNCHANGED << entries, lock, wk, closed, buildVars, fnVars >>

\* lines 34-39: take the next id under the next_id mutex; the u32 counter
\* stays far below its width, MaxOpens bounds the number of calls
OpenAllocId(file_path) ==
    /\ CanStep
    /\ Cardinality(opens) < MaxCallers
    /\ next_id <= MaxOpens
    /\ opens' = opens \cup { OpenCall(PcId(next_id), file_path) }
    /\ next_id' = next_id + 1
    /\ issued' = Append(issued, [n |-> next_id, id |-> PcId(next_id)])
    /\ ret' = NoRet
    /\ UNCHANGED << entries, lock, wk, closed, buildVars, fnVars >>

\* line 41, parser.rs lines 108-112: the file is opened and mapped
OpenMap(call) ==
    /\ CanStep
    /\ call \in opens
    /\ call.pc = "map"
    /\ Parser_map(call.file_path, Disk(call.file_path)).ok
    /\ opens' = (opens \ { call })
                  \cup { [call EXCEPT !.pc = "parse",
                                      !.mmap = Some(Disk(call.file_path))] }
    /\ ret' = NoRet
    /\ UNCHANGED << entries, next_id, lock, wk, issued, closed, buildVars, fnVars >>

\* what the parse of the header makes of the call: it returns the error,
\* the process is killed, or the call goes on with the parser
OpenParsed(call, outcome) ==
    IF IsAbort(outcome)
    THEN /\ opens' = (opens \ { call }) \cup { [call EXCEPT !.pc = "sigbus"] }
         /\ ret' = NoRet
    ELSE IF ~outcome.ok
    THEN /\ opens' = opens \ { call }
         /\ ret' = [op |-> "open", file_path |-> call.file_path, res |-> outcome]
    ELSE /\ opens' = (opens \ { call })
                       \cup { [call EXCEPT !.pc = "insert", !.parser = Some(outcome.val)] }
         /\ ret' = NoRet

\* line 41: PointcloudParser::open(file_path)? returns the error of the
\* open, of the mapping or of the header
OpenFail(call) ==
    /\ CanStep
    /\ call \in opens
    /\ \/ /\ call.pc = "map"
          /\ ~Parser_map(call.file_path, Disk(call.file_path)).ok
          /\ ret' = [op |-> "open", file_path |-> call.file_path,
                     res |-> Parser_map(call.file_path, Disk(call.file_path))]
          /\ opens' = opens \ { call }
       \/ /\ call.pc = "parse"
          /\ LET outcome == Parser_parse(call.file_path, call.mmap.val,
                                         LiveMap(call.file_path, call.mmap.val))
             IN  /\ ~IsAbort(outcome)
                 /\ ~outcome.ok
                 /\ OpenParsed(call, outcome)
    /\ UNCHANGED << entries, next_id, lock, wk, issued, closed, buildVars, fnVars >>

\* line 41, parser.rs lines 114-116: the header is parsed from the mapping
OpenParse(call) ==
    /\ CanStep
    /\ call \in opens
    /\ call.pc = "parse"
    /\ LET outcome == Parser_parse(call.file_path, call.mmap.val,
                                   LiveMap(call.file_path, call.mmap.val))
       IN  /\ IsAbort(outcome) \/ outcome.ok
           /\ OpenParsed(call, outcome)
    /\ UNCHANGED << entries, next_id, lock, wk, issued, closed, buildVars, fnVars >>

NewWorker(parser) ==
    [pc |-> "start", parser |-> parser, offset |-> 0, all_points |-> << >>,
     laz_points |-> << >>, batch_len |-> 0, e |-> "", octree |-> None]

\* lines 42-58: build the entry from the parser and insert it under the
\* write lock, which the statement takes and drops
OpenInsert(call) ==
    /\ CanStep
    /\ call \in opens
    /\ call.pc = "insert"
    /\ lock = Free
    /\ LET id == call.id
           parser == call.parser.val
           meta == metadata(parser, id, call.file_path)
           progress == IndexProgress(Progress_0_0, "Reading points", 0,
                                     total_points(parser))
       IN  entries' = MapInsert(entries, id, PointcloudEntry(meta, None, progress))
    /\ opens' = (opens \ { call }) \cup { [call EXCEPT !.pc = "spawn"] }
    /\ ret' = NoRet
    /\ UNCHANGED << next_id, lock, wk, issued, closed, buildVars, fnVars >>

\* lines 61-72: std::thread::spawn starts the worker of the entry
OpenSpawn(call) ==
    /\ CanStep
    /\ call \in opens
    /\ call.pc = "spawn"
    /\ wk' = MapInsert(wk, call.id, NewWorker(call.parser.val))
    /\ opens' = (opens \ { call }) \cup { [call EXCEPT !.pc = "return"] }
    /\ ret' = NoRet
    /\ UNCHANGED << entries, next_id, lock, issued, closed, buildVars, fnVars >>

\* line 74: Ok(metadata)
OpenReturn(call) ==
    /\ CanStep
    /\ call \in opens
    /\ call.pc = "return"
    /\ ret' = [op |-> "open", file_path |-> call.file_path,
               res |-> Ok(metadata(call.parser.val, call.id, call.file_path))]
    /\ opens' = opens \ { call }
    /\ UNCHANGED << entries, next_id, lock, wk, issued, closed, buildVars, fnVars >>

(***************************************************************************)
(* The background worker of entry id: build_octree and the error handler   *)
(* of the spawned closure.  pc names the next thing the thread does; at a  *)
(* lock point it first takes the write lock (WriteLock) and then runs the  *)
(* critical section, which releases it.                                    *)
(***************************************************************************)
LockPoints == { "start", "callback", "building", "store", "error" }

\* self.entries.write()
WriteLock(id) ==
    /\ CanStep
    /\ id \in DOMAIN wk
    /\ wk[id].pc \in LockPoints
    /\ lock = Free
    /\ lock' = id
    /\ ret' = NoRet
    /\ UNCHANGED << entries, next_id, opens, wk, issued, closed, buildVars, fnVars >>

\* lines 84-89
WSetReading(id) ==
    /\ CanStep
    /\ id \in DOMAIN wk
    /\ wk[id].pc = "start"
    /\ lock = id
    /\ entries' = UpdateEntry(entries, id, SetReadingPhase)
    /\ lock' = Free
    /\ wk' = [wk EXCEPT ![id].pc = "stream"]
    /\ ret' = NoRet
    /\ UNCHANGED << next_id, opens, issued, closed, buildVars, fnVars >>

\* stream_points, lines 358-362 and 377-378: the LAZ path decompresses all
\* points first and fails with the error of read_laz_all_points; a panic
\* ends the thread, a SIGBUS the process
WStreamStart(id) ==
    /\ CanStep
    /\ id \in DOMAIN wk
    /\ wk[id].pc = "stream"
    /\ LET w == wk[id]
           all == read_laz_all_points(Live(w.parser))
       IN  wk' = [wk EXCEPT ![id] =
                    IF ~w.parser.is_laz THEN [w EXCEPT !.pc = "loop"]
                    ELSE IF IsAbort(all)
                    THEN [w EXCEPT !.pc = IF all.abort = "panic" THEN "panicked"
                                          ELSE "sigbus"]
                    ELSE IF all.ok THEN [w EXCEPT !.pc = "loop", !.laz_points = all.val]
                    ELSE [w EXCEPT !.pc = "error", !.e = all.err]]
    /\ ret' = NoRet
    /\ UNCHANGED << entries, next_id, lock, opens, issued, closed, buildVars, fnVars >>

\* the total that bounds the loop of stream_points
StreamTotal(w) ==
    IF w.parser.is_laz THEN Len(w.laz_points) ELSE total_points(w.parser)

\* the worker after the read of one batch and the first statement of the
\* callback (all_points.extend_from_slice(batch)); rd is the outcome of
\* read_points, which the LAZ path does not call
WBatchRead(w, rd) ==
    LET total == StreamTotal(w)
        batch == IF w.parser.is_laz
                 THEN SubSeq(w.laz_points, w.offset + 1,
                             Min(w.offset + BATCH_SIZE, total))
                 ELSE rd.points
    IN  IF ~w.parser.is_laz /\ rd.panic THEN [w EXCEPT !.pc = "panicked"]
        ELSE IF ~w.parser.is_laz /\ rd.sigbus THEN [w EXCEPT !.pc = "sigbus"]
        ELSE [w EXCEPT !.pc = "callback",
                       !.all_points = @ \o batch,
                       !.batch_len = Len(batch)]

\* stream_points, the loop head and the read of one batch
WReadBatch(id) ==
    /\ CanStep
    /\ id \in DOMAIN wk
    /\ wk[id].pc = "loop"
    /\ LET w == wk[id]
           total == StreamTotal(w)
       IN  IF ~(w.offset < total)
           THEN wk' = [wk EXCEPT ![id].pc = "building"]
           ELSE IF w.parser.is_laz
           THEN wk' = [wk EXCEPT ![id] = WBatchRead(w, [panic |-> FALSE])]
           ELSE \E rd \in read_points(Live(w.parser), w.offset,
                                      Min(BATCH_SIZE, total - w.offset)) :
                   wk' = [wk EXCEPT ![id] = WBatchRead(w, rd)]
    /\ ret' = NoRet
    /\ UNCHANGED << entries, next_id, lock, opens, issued, closed, buildVars, fnVars >>

\* manager.rs lines 100-106, then the loop tail of stream_points
WProgress(id) ==
    /\ CanStep
    /\ id \in DOMAIN wk
    /\ wk[id].pc = "callback"
    /\ lock = id
    /\ LET w == wk[id]
           write(entry) == WriteBatchProgress(entry, w.offset, w.batch_len,
                                              total_points(w.parser))
       IN  /\ entries' = UpdateEntry(entries, id, write)
           /\ wk' = [wk EXCEPT ![id].offset = w.offset + w.batch_len,
                               ![id].pc = IF ~w.parser.is_laz /\ w.batch_len = 0
                                          THEN "building" ELSE "loop"]
    /\ lock' = Free
    /\ ret' = NoRet
    /\ UNCHANGED << next_id, opens, issued, closed, buildVars, fnVars >>

\* mutant: the guard of the phase write stays alive during the build
WSetBuilding_KeepLock(id) ==
    /\ CanStep
    /\ id \in DOMAIN wk
    /\ wk[id].pc = "building"
    /\ lock = id
    /\ entries' = UpdateEntry(entries, id, SetBuildingPhase)
    /\ lock' = id
    /\ wk' = [wk EXCEPT ![id].pc = "build"]
    /\ ret' = NoRet
    /\ UNCHANGED << next_id, opens, issued, closed, buildVars, fnVars >>

\* lines 110-116
WSetBuilding(id) ==
    /\ CanStep
    /\ id \in DOMAIN wk
    /\ wk[id].pc = "building"
    /\ lock = id
    /\ entries' = UpdateEntry(entries, id, SetBuildingPhase)
    /\ lock' = Free
    /\ wk' = [wk EXCEPT ![id].pc = "build"]
    /\ ret' = NoRet
    /\ UNCHANGED << next_id, opens, issued, closed, buildVars, fnVars >>

\* line 118
WBuild(id) ==
    /\ CanStep
    /\ id \in DOMAIN wk
    /\ wk[id].pc = "build"
    /\ wk' = [wk EXCEPT ![id].octree = Some(Octree_build(wk[id].all_points,
                                                         bounds(wk[id].parser))),
                        ![id].pc = "store"]
    /\ ret' = NoRet
    /\ UNCHANGED << entries, next_id, lock, opens, issued, closed, buildVars, fnVars >>

\* lines 121-130
WStore(id) ==
    /\ CanStep
    /\ id \in DOMAIN wk
    /\ wk[id].pc = "store"
    /\ lock = id
    /\ LET write(entry) == StoreOctree(entry, wk[id].octree.val)
       IN  entries' = UpdateEntry(entries, id, write)
    /\ lock' = Free
    /\ wk' = [wk EXCEPT ![id].pc = "done", ![id].octree = None]
    /\ ret' = NoRet
    /\ UNCHANGED << next_id, opens, issued, closed, buildVars, fnVars >>

\* lines 64-71: the closure's handling of Err(e)
WError(id) ==
    /\ CanStep
    /\ id \in DOMAIN wk
    /\ wk[id].pc = "error"
    /\ lock = id
    /\ LET write(entry) == SetErrorPhase(entry, wk[id].e)
       IN  entries' = UpdateEntry(entries, id, write)
    /\ lock' = Free
    /\ wk' = [wk EXCEPT ![id].pc = "done"]
    /\ ret' = NoRet
    /\ UNCHANGED << next_id, opens, issued, closed, buildVars, fnVars >>

(***************************************************************************)
(* The other operations of the manager; each holds the lock for the whole  *)
(* call, so it is one step taken while no worker holds the write lock.     *)
(***************************************************************************)

NodeIdLists == { << "r7", "r8", "r7", "r0" >>, << >> }

\* fov = 90 degrees, tan(45 degrees) = 1
Cameras == { CameraState(Extent \div 2, Extent \div 2, 40 * Extent, 90, 1, 1, 400) }

Budgets == { 3 }

\* the ids close, get_nodes and get_visible_nodes are called with: the
\* first id issued, which every file of Paths comes to have
CloseIds == { PcId(1) }
NodeQueryIds == { PcId(1) }

Close(id) ==
    /\ CanStep
    /\ lock = Free
    /\ ret' = [op |-> "close", id |-> id, res |-> (id \in DOMAIN entries)]
    /\ entries' = MapRemove(entries, id)
    /\ closed' = IF id \in DOMAIN entries THEN closed \cup { id } ELSE closed
    /\ UNCHANGED << next_id, lock, opens, wk, issued, buildVars, fnVars >>

GetProgress(id) ==
    /\ CanStep
    /\ lock = Free
    /\ ret' = [op |-> "get_progress", id |-> id, res |-> get_progress(entries, id)]
    /\ UNCHANGED << entries, next_id, lock, opens, wk, issued, closed, buildVars, fnVars >>

GetNodes(id, node_ids) ==
    /\ CanStep
    /\ lock = Free
    /\ ret' = [op |-> "get_nodes", id |-> id, node_ids |-> node_ids,
               res |-> get_nodes(entries, id, node_ids)]
    /\ UNCHANGED << entries, next_id, lock, opens, wk, issued, closed, buildVars, fnVars >>

GetVisibleNodes(id, camera, point_budget) ==
    /\ CanStep
    /\ lock = Free
    /\ ret' = [op |-> "get_visible_nodes", id |-> id, camera |-> camera,
               point_budget |-> point_budget,
               res |-> get_visible_nodes(entries, id, camera, point_budget)]
    /\ UNCHANGED << entries, next_id, lock, opens, wk, issued, closed, buildVars, fnVars >>

List ==
    /\ CanStep
    /\ lock = Free
    /\ ret' = [op |-> "list", res |-> list(entries)]
    /\ UNCHANGED << entries, next_id, lock, opens, wk, issued, closed, buildVars, fnVars >>

(***************************************************************************)
(* commands/mod.rs, save_file: fs::write creates or truncates the file and *)
(* then writes the data, two system calls between which the other threads  *)
(* run.  It takes any path, that of a file a parser has mapped included.   *)
(***************************************************************************)
SaveResult(success, message) == [success |-> success, message |-> message]

\* the paths and the data save_file is called with
SavePaths == { "t.las" }
StreamSavePaths == { "a.las", "g.laz", "adir.las" }
SaveData == { "hello" }
StreamSaveData == { "", "hello" }

\* the files after File::create of fs::write: the file that path names is
\* empty from here on, a new one when the name was not there
SaveCreated(path, data) ==
    LET d == DirEntry(path)
        ino == IF d.present THEN d.ino ELSE d.ino + 1
    IN  IF Disk(path).is_dir
        THEN [fs EXCEPT !.calls = @ + 1,
                        !.result = Some(SaveResult(FALSE,
                            "Failed to save file: Is a directory (os error 21)"))]
        ELSE [fs EXCEPT !.calls = @ + 1,
                        !.dir = IF d.present THEN @
                                ELSE MapInsert(@, path, [ino |-> ino, present |-> TRUE]),
                        !.content = MapInsert(@, << path, ino >>, ""),
                        !.save = [pc |-> "write", path |-> path, ino |-> ino,
                                  data |-> data],
                        !.result = None]

\* the files f after write_all of fs::write, and the SaveResult
SaveWritten(f) ==
    [f EXCEPT !.content = MapInsert(@, << f.save.path, f.save.ino >>, f.save.data),
              !.save = [pc |-> "idle"],
              !.result = Some(SaveResult(TRUE, "File saved to " \o f.save.path))]

\* File::create of fs::write
SaveCreate(path, data) ==
    /\ CanStep
    /\ fs.save.pc = "idle"
    /\ fs.calls < MaxFileCalls
    /\ fs' = SaveCreated(path, data)
    /\ UNCHANGED << mgrVars, buildVars, pack, stream, twin, apiVars >>

\* write_all of fs::write, and the SaveResult
SaveWrite ==
    /\ CanStep
    /\ fs.save.pc = "write"
    /\ fs' = SaveWritten(fs)
    /\ UNCHANGED << mgrVars, buildVars, pack, stream, twin, apiVars >>

\* save_file(path, data) can run from its start to its end within one call
\* that reads the mapping mmap of path
SaveWithin(path, mmap) ==
    /\ fs.save.pc = "idle"
    /\ fs.calls < MaxFileCalls
    /\ DirEntry(path).present
    /\ DirEntry(path).ino = mmap.ino

\* the parse of the header of an open call, with save_file(path, data) run
\* from its start to its end between two of its reads of the mapping
OpenParseSaved(call, path, data) ==
    /\ CanStep
    /\ call \in opens
    /\ call.pc = "parse"
    /\ path = call.file_path
    /\ SaveWithin(path, call.mmap.val)
    /\ LET before == LiveMap(path, call.mmap.val)
           after == Remapped(call.mmap.val, Some(data))
       IN  /\ ~IsAbort(Parser_parse(path, call.mmap.val, before))
           /\ \E cut \in HeaderCuts :
                 OpenParsed(call, Parser_parse(path, call.mmap.val,
                                               TornHeader(before, after, cut)))
    /\ fs' = SaveWritten(SaveCreated(path, data))
    /\ UNCHANGED << entries, next_id, lock, wk, issued, closed, buildVars,
                    pack, stream, twin, apiVars >>

\* the read of one batch by the worker, with save_file(path, data) run from
\* its start to its end between two of its reads of the mapping
WReadBatchSaved(id, path, data) ==
    /\ CanStep
    /\ id \in DOMAIN wk
    /\ wk[id].pc = "loop"
    /\ LET w == wk[id]
           total == StreamTotal(w)
       IN  /\ ~w.parser.is_laz
           /\ w.offset < total
           /\ path = w.parser.mapped_path
           /\ SaveWithin(path, w.parser.mmap)
           /\ \E rd \in read_points_racing(Live(w.parser),
                                            [w.parser EXCEPT !.mmap = Remapped(@, Some(data))],
                                            w.offset, Min(BATCH_SIZE, total - w.offset)) :
                 wk' = [wk EXCEPT ![id] = WBatchRead(w, rd)]
    /\ fs' = SaveWritten(SaveCreated(path, data))
    /\ ret' = NoRet
    /\ UNCHANGED << entries, next_id, lock, opens, issued, closed, buildVars,
                    pack, stream, twin, apiVars >>

(***************************************************************************)
(* commands/mod.rs, execute_shell: a program whose name is git or claude,  *)
(* in any directory and any case, is run with the arguments given.  git is *)
(* the one program the search path holds; the command it is given here is  *)
(* an alias that removes a file.                                           *)
(***************************************************************************)
ShellResult(success, stdout, stderr, code) ==
    [success |-> success, stdout |-> stdout, stderr |-> stderr, code |-> code]

ends_with(str, suffix) ==
    Len(suffix) <= Len(str)
      /\ SubSeq(str, Len(str) - Len(suffix) + 1, Len(str)) = suffix

\* the test against allowed_programs
ShellAllowed(program) ==
    LET program_name == to_lowercase(program)
    IN  \E allowed \in { "git", "claude" } :
           \/ program_name = allowed
           \/ ends_with(program_name, "\\" \o allowed)
           \/ ends_with(program_name, "/" \o allowed)

\* the programs execute_shell is called with, and those that can be run
ShellPrograms == { "git", "sh", "Bin/Git" }
Installed == { "git" }

\* git -c "alias.x=!rm -f <path>" x: the shell runs rm -f <path>
ShellRemove(path) == << "-c", "alias.x=!rm -f " \o path, "x" >>
ShellPaths == { "t.las" }

\* the answer of execute_shell, by program: refused, not found, or run
execute_shell(program) ==
    IF ~ShellAllowed(program)
    THEN ShellResult(FALSE, "", "Program '" \o program
                        \o "' is not allowed. Allowed: git, claude", -1)
    ELSE IF program \notin Installed
    THEN ShellResult(FALSE, "",
             "Failed to execute command: No such file or directory (os error 2)",
             -1)
    ELSE ShellResult(TRUE, "", "", 0)

ShellResults == [program \in ShellPrograms |-> execute_shell(program)]
ShellArgs == [path \in ShellPaths |-> ShellRemove(path)]

\* lines 60-75: the program is refused, or not found, or it runs: the child
\* removes the file while the call waits for it
ExecuteShell(program, path) ==
    /\ CanStep
    /\ fs.shell.pc = "idle"
    /\ fs.calls < MaxFileCalls
    /\ ~Disk(path).is_dir
    /\ LET d == DirEntry(path)
       IN  IF ~ShellResults[program].success
           THEN /\ ret' = [op |-> "execute_shell", program |-> program,
                           args |-> ShellArgs[path], res |-> ShellResults[program]]
                /\ fs' = fs
           ELSE /\ ret' = NoRet
                /\ fs' = [fs EXCEPT
                            !.shell = [pc |-> "return", program |-> program,
                                       path |-> path],
                            !.calls = IF d.present THEN @ + 1 ELSE @,
                            !.dir = IF d.present
                                    THEN MapInsert(@, path, [ino |-> d.ino,
                                                             present |-> FALSE])
                                    ELSE @]
    /\ UNCHANGED << entries, next_id, lock, opens, wk, issued, closed, buildVars,
                    pack, stream, twin, apiVars >>

\* lines 77-83: the child has exited, the call returns its output
ShellReturn ==
    /\ CanStep
    /\ fs.shell.pc = "return"
    /\ ret' = [op |-> "execute_shell", program |-> fs.shell.program,
               args |-> ShellArgs[fs.shell.path],
               res |-> ShellResults[fs.shell.program]]
    /\ fs' = [fs EXCEPT !.shell = [pc |-> "idle"]]
    /\ UNCHANGED << entries, next_id, lock, opens, wk, issued, closed, buildVars,
                    pack, stream, twin, apiVars >>

Worker(id) ==
    \/ WriteLock(id)
    \/ WSetReading(id)
    \/ WStreamStart(id)
    \/ WReadBatch(id)
    \/ WProgress(id)
    \/ WSetBuilding(id)
    \/ WBuild(id)
    \/ WStore(id)
    \/ WError(id)

Next ==
    \/ QueryReturned
    \/ \E file_path \in Paths : opens = {} /\ OpenAllocId(file_path)
    \/ \E call \in opens : OpenMap(call)
    \/ \E call \in opens : OpenFail(call)
    \/ \E call \in opens : OpenParse(call)
    \/ \E call \in opens : OpenInsert(call)
    \/ \E call \in opens : OpenSpawn(call)
    \/ \E call \in opens : OpenReturn(call)
    \/ \E id \in AllIds : Worker(id)
    \/ \E id \in CloseIds : Close(id)
    \/ \E id \in AllIds : GetProgress(id)
    \/ \E id \in NodeQueryIds, node_ids \in NodeIdLists : GetNodes(id, node_ids)
    \/ \E id \in NodeQueryIds, camera \in Cameras, point_budget \in Budgets :
          GetVisibleNodes(id, camera, point_budget)
    \/ List
    \/ \E path \in SavePaths, data \in SaveData : SaveCreate(path, data)
    \/ SaveWrite
    \/ \E call \in opens, path \in SavePaths, data \in SaveData :
          OpenParseSaved(call, path, data)
    \/ \E id \in AllIds, path \in SavePaths, data \in SaveData :
          WReadBatchSaved(id, path, data)
    \/ \E program \in ShellPrograms, path \in ShellPaths : ExecuteShell(program, path)
    \/ ShellReturn

Spec == Init /\ [][Next]_vars

(***************************************************************************)
(* Octree::build on its own: the inputs are all point sequences up to      *)
(* MaxPts points, and the sequences of up to MaxLodPts points that fill a  *)
(* leaf past SUBSAMPLE_RATIO; one step per insert_point, then the LOD pass. *)
(***************************************************************************)
InitBuild ==
    /\ MgrInit
    /\ FnIdle
    /\ pending \in SeqsUpTo(PointSet, MaxPts) \cup SeqsUpTo(LodPointSet, MaxLodPts)
    /\ tree = Octree_new(Len(pending), RootBounds)
    /\ inserted = << >>
    /\ stage = "insert"

\* lines 57-59, one iteration
InsertPoint ==
    /\ stage = "insert"
    /\ pending # << >>
    /\ tree' = insert_point(tree, Head(pending))
    /\ inserted' = Append(inserted, Head(pending))
    /\ pending' = Tail(pending)
    /\ UNCHANGED << stage, mgrVars, fnVars >>

\* line 62
BuildLod ==
    /\ stage = "insert"
    /\ pending = << >>
    /\ tree' = build_lod(tree, 1)
    /\ stage' = "built"
    /\ UNCHANGED << pending, inserted, mgrVars, fnVars >>

\* the cameras of the LOD queries, all at fov 90 degrees and screen height
\* 400, looking down the z axis at the centre of the dataset: at the centre
\* of the root, just above it where the root is at 200 pixels or more and
\* its children are below, and at distances where the root is below 200
\* pixels, where the children of the root are below one pixel, and where the
\* root is
LodCameras ==
    { CameraState(Extent \div 2, Extent \div 2, Extent \div 2, 90, 1, 1, 400),
      CameraState(Extent \div 2, Extent \div 2, Extent + Extent \div 4, 90, 1, 1, 400),
      CameraState(Extent \div 2, Extent \div 2, 2 * Extent, 90, 1, 1, 400),
      CameraState(Extent \div 2, Extent \div 2, 40 * Extent, 90, 1, 1, 400),
      CameraState(Extent \div 2, Extent \div 2, 125 * Extent, 90, 1, 1, 400),
      CameraState(Extent \div 2, Extent \div 2, 201 * Extent, 90, 1, 1, 400) }

LodBudgets == { 0, 1, 2, 4, 8 }

\* Octree::get_visible_nodes on the built tree.  The query changes nothing,
\* so one query per built tree reaches every answer.
VisibleNodes(camera, point_budget) ==
    /\ stage = "built"
    /\ ret = NoRet
    /\ ret' = [op |-> "Octree::get_visible_nodes", camera |-> camera,
               point_budget |-> point_budget,
               res |-> Octree_get_visible_nodes(tree, camera, point_budget)]
    /\ UNCHANGED << entries, next_id, lock, opens, wk, issued, closed, buildVars, fnVars >>

\* the ids asked of get_node_chunk: the ids of the nodes, their prefixes,
\* their extensions by a digit, and ids no tree has
ChunkIds(t) ==
    LET ids == { t.nodes[n].node_id : n \in 1..Len(t.nodes) }
    IN  ids \cup UNION { { SubSeq(id, 1, k) : k \in 0..Len(id) } : id \in ids }
            \cup { id \o d : id \in ids, d \in { "0", "7" } }
            \cup { "q", "r8", "R" }

\* Octree::get_node_chunk on the built tree
NodeChunk(node_id) ==
    /\ stage = "built"
    /\ ret = NoRet
    /\ ret' = [op |-> "Octree::get_node_chunk", node_id |-> node_id,
               res |-> get_node_chunk(tree, node_id)]
    /\ UNCHANGED << entries, next_id, lock, opens, wk, issued, closed, buildVars, fnVars >>

NextBuild ==
    \/ InsertPoint
    \/ BuildLod
    \/ \E camera \in LodCameras, point_budget \in LodBudgets :
          VisibleNodes(camera, point_budget)
    \/ \E node_id \in ChunkIds(tree) : NodeChunk(node_id)

SpecBuild == InitBuild /\ [][NextBuild]_vars

(***************************************************************************)
(* pack_chunks_binary on its own: the inputs are the lists of up to        *)
(* MaxChunks chunks, with ids of 0 to 4 bytes and 0 to 2 points; one step  *)
(* for the size computation and the chunk count, one per chunk.            *)
(***************************************************************************)
PackIds == { "", "r", "r0", "r07", "r070" }

\* a chunk of n points as get_node_chunk lays it out: 3n positions, 3n
\* colours, n intensities, n classifications
PackChunkOf(node_id, n) ==
    PointChunk(node_id, << Extent \div 2, 0 - 3, 1 + Len(node_id) >>,
               IF node_id = "" THEN 0 ELSE Len(node_id) - 1, 1 + 2 * n,
               SubSeq(<< 0 - 2, 1, 0, 3, 0 - 1, 4 >>, 1, 3 * n),
               SubSeq(<< 255, 0, 128, 1, 2, 3 >>, 1, 3 * n),
               SubSeq(<< 65535, 258 >>, 1, n),
               SubSeq(<< 2, 255 >>, 1, n), n)

PackChunkSet == { PackChunkOf(node_id, n) : node_id \in PackIds, n \in 0..2 }

InitPack ==
    /\ MgrInit
    /\ BuildIdle
    /\ stream = [pc |-> "idle"]
    /\ twin = [pc |-> "idle"]
    /\ ApiInit
    /\ FsInit
    /\ \E chunks \in SeqsUpTo(PackChunkSet, MaxChunks) :
          pack = [pc |-> "size", chunks |-> chunks, done |-> 0,
                  total_size |-> 0, buf |-> << >>]

\* lines 68-83: the size, the allocation and the chunk count
PackSize ==
    /\ pack.pc = "size"
    /\ pack' = [pack EXCEPT !.pc = "loop",
                            !.total_size = pack_total_size(pack.chunks),
                            !.buf = u32_to_le_bytes(Len(pack.chunks))]
    /\ UNCHANGED << mgrVars, buildVars, apiVars, fs, stream, twin >>

\* lines 85-132: one chunk
PackChunk ==
    /\ pack.pc = "loop"
    /\ pack.done < Len(pack.chunks)
    /\ pack' = [pack EXCEPT !.buf = pack_chunk(pack.buf, pack.chunks[pack.done + 1]),
                            !.done = pack.done + 1]
    /\ UNCHANGED << mgrVars, buildVars, apiVars, fs, stream, twin >>

\* line 135
PackReturn ==
    /\ pack.pc = "loop"
    /\ pack.done = Len(pack.chunks)
    /\ pack' = [pack EXCEPT !.pc = "done"]
    /\ UNCHANGED << mgrVars, buildVars, apiVars, fs, stream, twin >>

NextPack == PackSize \/ PackChunk \/ PackReturn

SpecPack == InitPack /\ [][NextPack]_vars

(***************************************************************************)
(* stream_points on its own, with a callback that takes note of its calls  *)
(* and returns false on its stop_at-th call (never when stop_at is 0).     *)
(* The inputs are the files that open, batch sizes 1..MaxBatch and stop_at *)
(* in 0..MaxCalls; save_file may rewrite a file while the run reads it, in  *)
(* the decompression of a compressed file as in the read of a batch.       *)
(***************************************************************************)
StreamCall(path, parser, batch_size, stop_at) ==
    [pc |-> "enter", path |-> path, parser |-> parser,
     batch_size |-> batch_size, stop_at |-> stop_at,
     all_points |-> << >>, offset |-> 0, calls |-> << >>, result |-> None]

InitStream ==
    /\ MgrInit
    /\ BuildIdle
    /\ pack = [pc |-> "idle"]
    /\ twin = [pc |-> "idle"]
    /\ ApiInit
    /\ FsInit
    /\ \E path \in { p \in StreamPaths : Parser_open(p, Files[p]).ok },
          batch_size \in 1..MaxBatch, stop_at \in 0..MaxCalls :
          stream = StreamCall(path, Parser_open(path, Files[path]).val,
                              batch_size, stop_at)

\* lines 358-362 and 376-378: the LAZ path decompresses all points first
\* all is the outcome of read_laz_all_points
stream_points_entered(run, all) ==
    IF ~run.parser.is_laz THEN [run EXCEPT !.pc = "loop"]
    ELSE IF IsAbort(all)
    THEN [run EXCEPT !.pc = IF all.abort = "panic" THEN "panicked" ELSE "sigbus"]
    ELSE IF all.ok THEN [run EXCEPT !.pc = "loop", !.all_points = all.val]
    ELSE [run EXCEPT !.pc = "done", !.result = Some(Err(all.err))]

stream_points_enter(run) ==
    stream_points_entered(run, read_laz_all_points(Live(run.parser)))

\* the total of the loop condition offset < total
stream_points_total(run) ==
    IF run.parser.is_laz THEN Len(run.all_points) ELSE total_points(run.parser)

\* the outcomes of the read of one batch: the LAZ path does not read
stream_points_read(run, written) ==
    IF run.parser.is_laz THEN { [panic |-> FALSE, sigbus |-> FALSE, points |-> << >>] }
    ELSE read_points_racing(Live(run.parser), written, run.offset,
                            Min(run.batch_size, stream_points_total(run) - run.offset))

\* lines 364-371 and 380-393: one iteration of the loop, the call of the
\* callback included; rd is the outcome of read_points
stream_points_batch(run, rd) ==
    LET laz == run.parser.is_laz
        total == stream_points_total(run)
        batch == IF laz
                 THEN SubSeq(run.all_points, run.offset + 1,
                             Min(run.offset + run.batch_size, total))
                 ELSE rd.points
        calls == Append(run.calls, [start_index |-> run.offset, batch |-> batch])
        continue == run.stop_at = 0 \/ Len(calls) < run.stop_at
    IN  IF ~laz /\ rd.panic THEN [run EXCEPT !.pc = "panicked"]
        ELSE IF ~laz /\ rd.sigbus THEN [run EXCEPT !.pc = "sigbus"]
        ELSE IF ~continue
        THEN [run EXCEPT !.calls = calls, !.pc = "done", !.result = Some(Ok("()"))]
        ELSE IF ~laz /\ Len(batch) = 0
        THEN [run EXCEPT !.calls = calls, !.pc = "done", !.result = Some(Ok("()"))]
        ELSE [run EXCEPT !.calls = calls,
                         !.offset = IF laz
                                    THEN Min(run.offset + run.batch_size, total)
                                    ELSE run.offset + Len(batch)]

\* lines 364, 372, 380 and 395: the loop ends and Ok(()) is returned
stream_points_return(run) == [run EXCEPT !.pc = "done", !.result = Some(Ok("()"))]

StreamEnter ==
    /\ Running
    /\ stream.pc = "enter"
    /\ stream' = stream_points_enter(stream)
    /\ UNCHANGED << mgrVars, buildVars, apiVars, fs, pack, twin >>

\* the decompression of a compressed file with save_file(path, data) run
\* from its start to its end between two reads of the mapping
StreamEnterSaved(path, data) ==
    /\ Running
    /\ stream.pc = "enter"
    /\ stream.parser.is_laz
    /\ path = stream.parser.mapped_path
    /\ SaveWithin(path, stream.parser.mmap)
    /\ \E all \in read_laz_all_points_racing(Live(stream.parser),
                       [stream.parser EXCEPT !.mmap = Remapped(@, Some(data))]) :
          stream' = stream_points_entered(stream, all)
    /\ fs' = SaveWritten(SaveCreated(path, data))
    /\ UNCHANGED << mgrVars, buildVars, apiVars, pack, twin >>

\* a run is followed for at most MaxCalls + 1 calls of the callback
StreamBatch ==
    /\ Running
    /\ stream.pc = "loop"
    /\ stream.offset < stream_points_total(stream)
    /\ Len(stream.calls) <= MaxCalls
    /\ \E rd \in stream_points_read(stream, Live(stream.parser)) :
          stream' = stream_points_batch(stream, rd)
    /\ UNCHANGED << mgrVars, buildVars, apiVars, fs, pack, twin >>

\* an iteration of the loop with save_file(path, data) run from its start
\* to its end between two reads of the mapping
StreamBatchSaved(path, data) ==
    /\ Running
    /\ stream.pc = "loop"
    /\ stream.offset < stream_points_total(stream)
    /\ Len(stream.calls) <= MaxCalls
    /\ ~stream.parser.is_laz
    /\ path = stream.parser.mapped_path
    /\ SaveWithin(path, stream.parser.mmap)
    /\ \E rd \in stream_points_read(stream,
                      [stream.parser EXCEPT !.mmap = Remapped(@, Some(data))]) :
          stream' = stream_points_batch(stream, rd)
    /\ fs' = SaveWritten(SaveCreated(path, data))
    /\ UNCHANGED << mgrVars, buildVars, apiVars, pack, twin >>

StreamReturn ==
    /\ Running
    /\ stream.pc = "loop"
    /\ ~(stream.offset < stream_points_total(stream))
    /\ stream' = stream_points_return(stream)
    /\ UNCHANGED << mgrVars, buildVars, apiVars, fs, pack, twin >>

NextStream ==
    \/ StreamEnter \/ StreamBatch \/ StreamReturn
    \/ \E path \in StreamSavePaths, data \in StreamSaveData : SaveCreate(path, data)
    \/ SaveWrite
    \/ \E path \in StreamSavePaths, data \in StreamSaveData : StreamBatchSaved(path, data)
    \/ \E path \in StreamSavePaths, data \in StreamSaveData : StreamEnterSaved(path, data)

SpecStream == InitStream /\ [][NextStream]_vars

(***************************************************************************)
(* on a complete uncompressed file (stream) and on the file LASzip makes   *)
(* of it (twin).  The laz crate is no part of the repository: its          *)
(* decompress_one is taken to yield the stored records in their order.     *)
(* The files are of the formats 0 and 1, which hold no colour, and their   *)
(* bytes 15 and 16 are equal, so both files decode to the same records.    *)
(* Batch sizes are 0..MaxBatch.                                            *)
(***************************************************************************)
\* the complete uncompressed files
TwinPaths == { "w.las", "w1.las" }

\* the path of the compressed file
TwinPath(path) == SubSeq(path, 1, Len(path) - 1) \o "z"

\* the bytes of the LASzip VLR of a file of format 0 or 1: the VLR header,
\* the fixed part of the record and six bytes for each item of the point
LaszipVlrBytes(fmt) == 54 + 34 + 6 * (1 + fmt)

\* the file LASzip makes of an uncompressed file: bit 7 of the point data
\* format is set and the LASzip VLR stands before the point data
LazTwin(file) ==
    [file EXCEPT !.is_laz = TRUE, !.has_laszip_vlr = TRUE,
                 !.point_data_format = @ + 128,
                 !.offset_to_points = @ + LaszipVlrBytes(file.point_data_format),
                 !.size = @ + LaszipVlrBytes(file.point_data_format),
                 !.backing = @ + LaszipVlrBytes(file.point_data_format)]

InitTwin ==
    /\ MgrInit
    /\ BuildIdle
    /\ pack = [pc |-> "idle"]
    /\ ApiInit
    /\ FsInit
    /\ \E path \in TwinPaths, batch_size \in 0..MaxBatch, stop_at \in 0..MaxCalls :
          /\ stream = StreamCall(path, Parser_open(path, Files[path]).val,
                                 batch_size, stop_at)
          /\ twin = StreamCall(TwinPath(path),
                               Parser_open(TwinPath(path), LazTwin(Files[path])).val,
                               batch_size, stop_at)

TwinEnter ==
    /\ twin.pc = "enter"
    /\ twin' = stream_points_enter(twin)
    /\ UNCHANGED << mgrVars, buildVars, apiVars, fs, pack, stream >>

TwinBatch ==
    /\ twin.pc = "loop"
    /\ twin.offset < stream_points_total(twin)
    /\ Len(twin.calls) <= MaxCalls
    /\ \E rd \in stream_points_read(twin, Live(twin.parser)) :
          twin' = stream_points_batch(twin, rd)
    /\ UNCHANGED << mgrVars, buildVars, apiVars, fs, pack, stream >>

TwinReturn ==
    /\ twin.pc = "loop"
    /\ ~(twin.offset < stream_points_total(twin))
    /\ twin' = stream_points_return(twin)
    /\ UNCHANGED << mgrVars, buildVars, apiVars, fs, pack, stream >>

NextTwin ==
    \/ StreamEnter \/ StreamBatch \/ StreamReturn
    \/ TwinEnter \/ TwinBatch \/ TwinReturn

SpecTwin == InitTwin /\ [][NextTwin]_vars

(***************************************************************************)
(* PointcloudManager::open on files whose headers vary in length,          *)
(* signature, version and point data format, with MaxCallers calls in      *)
(* flight, close and list; the workers it spawns have not run yet.         *)
(***************************************************************************)
NextHeader ==
    \/ \E file_path \in HeaderPaths : OpenAllocId(file_path)
    \/ \E call \in opens : OpenMap(call)
    \/ \E call \in opens : OpenFail(call)
    \/ \E call \in opens : OpenParse(call)
    \/ \E call \in opens : OpenInsert(call)
    \/ \E call \in opens : OpenSpawn(call)
    \/ \E call \in opens : OpenReturn(call)
    \/ \E id \in CloseIds : Close(id)
    \/ List
    \/ QueryReturned

SpecHeader == Init /\ [][NextHeader]_vars

(***************************************************************************)
(* api_server.rs: POST /eval.  Every request is handled on a thread of its *)
(* own; MaxRequests requests arrive.  A thread takes one step per access   *)
(* to shared state: the clock, pending_evals, the webview, its EvalResult. *)
(***************************************************************************)
Scripts == { "", "return 1", "return 2", "1+1", "throw new Error('no')" }

\* the readings of the system clock, in nanoseconds since the epoch less a
\* constant: as many as requests, so that all differ or some coincide
Ticks == 1..MaxRequests

\* the errors window.eval returns with
EvalErrors == { "webview not found", "failed to receive message from \"main\"" }

otherState == << mgrVars, buildVars, pack, stream, twin, fs >>

\* lines 233-248: read the body; an empty script is answered with 400
EvalRequest(r, script) ==
    /\ evals[r].pc = "recv"
    /\ evals' = [evals EXCEPT ![r] =
                   IF script = ""
                   THEN [@ EXCEPT !.pc = "answered", !.status = 400,
                                  !.resp_body = NoScriptBody]
                   ELSE [@ EXCEPT !.pc = "register", !.script = script]]
    /\ UNCHANGED << pending_evals, handles, webview, clock, otherState >>

\* register_eval, line 39: the id is made of the reading of the system
\* clock, which is whatever SystemTime::now() returns to this thread: the
\* clock has the resolution of its source and can be set back
EvalUuid(r) ==
    /\ evals[r].pc = "register"
    /\ \E t \in Ticks :
          /\ clock' = t
          /\ evals' = [evals EXCEPT ![r].pc = "insert", ![r].eval_id = eval_id_at(t)]
    /\ UNCHANGED << pending_evals, handles, webview, otherState >>

\* register_eval, lines 40-48: the new EvalResult goes into the map
EvalInsert(r) ==
    /\ evals[r].pc = "insert"
    /\ handles' = [handles EXCEPT ![r] = EvalResult(FALSE, None)]
    /\ pending_evals' = MapInsert(pending_evals, evals[r].eval_id, r)
    /\ evals' = [evals EXCEPT ![r].pc = "eval"]
    /\ UNCHANGED << webview, clock, otherState >>

\* lines 254-277, window.eval(&js) is Ok: the script runs in the webview and
\* will call api_eval_callback with the id and its payload; req tells the
\* calls of two requests apart
EvalInWebview(r) ==
    /\ evals[r].pc = "eval"
    /\ webview' = webview \cup { [req |-> r, evalId |-> evals[r].eval_id,
                                  result |-> Payload(evals[r].script)] }
    /\ evals' = [evals EXCEPT ![r].pc = "wait"]
    /\ UNCHANGED << pending_evals, handles, clock, otherState >>

\* lines 280-288, window.eval(&js) is Err(e): clean up and answer 500
EvalFailed(r, e) ==
    /\ evals[r].pc = "eval"
    /\ pending_evals' = cleanup_eval(pending_evals, evals[r].eval_id)
    /\ evals' = [evals EXCEPT ![r].pc = "answered", ![r].status = 500,
                              ![r].resp_body = EvalFailedBody(e)]
    /\ UNCHANGED << handles, webview, clock, otherState >>

\* lines 290-298: the poll finds the result ready
EvalReady(r) ==
    /\ evals[r].pc = "wait"
    /\ handles[r].ready
    /\ evals' = [evals EXCEPT ![r].pc = "cleanup",
                              ![r].resp_body = IF handles[r].value.some
                                               THEN handles[r].value.val
                                               ELSE NullBody]
    /\ UNCHANGED << pending_evals, handles, webview, clock, otherState >>

\* lines 290-301: the poll finds no result and 30 s have passed
EvalTimeout(r) ==
    /\ evals[r].pc = "wait"
    /\ ~handles[r].ready
    /\ evals' = [evals EXCEPT ![r].pc = "cleanup", ![r].resp_body = TimeoutBody]
    /\ UNCHANGED << pending_evals, handles, webview, clock, otherState >>

\* lines 305-306: cleanup_eval and the answer
EvalCleanup(r) ==
    /\ evals[r].pc = "cleanup"
    /\ pending_evals' = cleanup_eval(pending_evals, evals[r].eval_id)
    /\ evals' = [evals EXCEPT ![r].pc = "answered", ![r].status = 200]
    /\ UNCHANGED << handles, webview, clock, otherState >>

\* main.rs, api_eval_callback: a script in the webview delivers its result
ApiEvalCallback(call) ==
    /\ call \in webview
    /\ handles' = deliver_result(pending_evals, handles, call.evalId, call.result)
    /\ webview' = webview \ { call }
    /\ UNCHANGED << pending_evals, evals, clock, otherState >>

NextEval ==
    \/ \E r \in 1..MaxRequests, script \in Scripts : EvalRequest(r, script)
    \/ \E r \in 1..MaxRequests : EvalUuid(r)
    \/ \E r \in 1..MaxRequests : EvalInsert(r)
    \/ \E r \in 1..MaxRequests : EvalInWebview(r)
    \/ \E r \in 1..MaxRequests, e \in EvalErrors : EvalFailed(r, e)
    \/ \E r \in 1..MaxRequests : EvalReady(r)
    \/ \E r \in 1..MaxRequests : EvalTimeout(r)
    \/ \E r \in 1..MaxRequests : EvalCleanup(r)
    \/ \E call \in webview : ApiEvalCallback(call)

SpecEval == Init /\ [][NextEval]_vars

(***************************************************************************)
(* Properties of the registry and its workers (specification Spec)         *)
(***************************************************************************)
NotFound == Err("Pointcloud not found")
NotReady == Err("Octree not yet built")

IsErrorPhase(phase) == Len(phase) >= 7 /\ SubSeq(phase, 1, 7) = "Error: "

\* what get_nodes and get_visible_nodes answer for id, over all the arguments
\* the callers use
AllAnswer(es, id, answer) ==
    /\ \A node_ids \in NodeIdLists : get_nodes(es, id, node_ids) = answer
    /\ \A camera \in Cameras, point_budget \in Budgets :
          get_visible_nodes(es, id, camera, point_budget) = answer

NoneAnswers(es, id, answer) ==
    /\ \A node_ids \in NodeIdLists : get_nodes(es, id, node_ids) # answer
    /\ \A camera \in Cameras, point_budget \in Budgets :
          get_visible_nodes(es, id, camera, point_budget) # answer

\* C1: for every registry entry, the octree is installed iff the phase is
\* "Complete" iff the progress is 1.0; get_nodes and get_visible_nodes answer
\* NotReady exactly while get_progress reports a progress below 1, and an
\* octree is visible only once the worker has run its installing critical
\* section, its last step.
C1_OctreeIffComplete ==
    \A id \in DOMAIN entries :
        LET e == entries[id]
            reported == get_progress(entries, id).val.progress
        IN  /\ e.octree.some <=> e.progress.phase = "Complete"
            /\ e.progress.phase = "Complete" <=> e.progress.progress = Progress_1_0
            /\ IF FracLT(reported, Progress_1_0)
               THEN AllAnswer(entries, id, NotReady)
               ELSE NoneAnswers(entries, id, NotReady) /\ NoneAnswers(entries, id, NotFound)
            /\ e.octree.some => wk[id].pc = "done" /\ lock # id

C1_Witness ==
    /\ ret.op = "get_nodes"
    /\ ret.res.ok
    /\ ret.id \in DOMAIN entries
    /\ entries[ret.id].octree.some
    /\ \E other \in DOMAIN entries :
          /\ ~entries[other].octree.some
          /\ FracLT(entries[other].progress.progress, Progress_1_0)

\* the progress an entry may show in a given phase
ProgressFitsPhase(p) ==
    /\ FracLE(Progress_0_0, p.progress) /\ FracLE(p.progress, Progress_1_0)
    /\ p.phase = "Reading points" => FracLE(p.progress, Progress_0_5)
    /\ p.phase = "Building octree" => p.progress = Progress_0_5
    /\ p.phase = "Complete" => p.progress = Progress_1_0

\* C2: in every step, the progress of every entry that stays in the registry
\* does not decrease; it lies in [0,1], is 0.0 when the entry is inserted, at
\* most 0.5 in phase "Reading points", 0.5 in phase "Building octree" and
\* 1.0 in phase "Complete".
C2_ProgressMonotone ==
    [][ \A id \in DOMAIN entries' :
          /\ ProgressFitsPhase(entries'[id].progress)
          /\ id \in DOMAIN entries =>
                FracLE(entries[id].progress.progress, entries'[id].progress.progress)
          /\ id \notin DOMAIN entries =>
                entries'[id].progress.progress = Progress_0_0 ]_vars

\* get_progress returns a progress strictly between 0 and 0.5 for an entry
\* whose worker is between two batches
C2_Witness ==
    /\ ret.op = "get_progress"
    /\ ret.res.some
    /\ FracLT(Progress_0_0, ret.res.val.progress)
    /\ FracLT(ret.res.val.progress, Progress_0_5)
    /\ ret.res.val.phase = "Reading points"
    /\ ret.id \in DOMAIN wk
    /\ wk[ret.id].pc = "loop"
    /\ wk[ret.id].offset > 0
    /\ wk[ret.id].offset < total_points(wk[ret.id].parser)

\* C3: a close step returns whether the entry existed and leaves no entry
\* for the id; an id whose entry was closed has no entry in any later state,
\* whatever its worker still does: get_progress gives None, get_nodes and
\* get_visible_nodes give NotFound and list() has no metadata with that id.
C3_ClosedStaysClosed ==
    [][ /\ (ret' # ret /\ ret'.op = "close") =>
              /\ ret'.res = (ret'.id \in DOMAIN entries)
              /\ ret'.id \notin DOMAIN entries'
              /\ ret'.res => ret'.id \in closed'
        /\ \A id \in closed' :
              /\ id \notin DOMAIN entries'
              /\ get_progress(entries', id) = None
              /\ AllAnswer(entries', id, NotFound)
              /\ \A m \in list(entries') : m.id # id ]_vars

\* the worker of a closed entry holds the write lock for the installing
\* write, which finds no entry
C3_Witness ==
    \E id \in closed :
        /\ id \notin DOMAIN entries
        /\ id \in DOMAIN wk
        /\ wk[id].pc = "store"
        /\ lock = id

\* C4: an entry that is not closed reaches a terminal phase: when its worker
\* thread has ended, the entry shows "Complete" with the octree installed or
\* "Error: <message>" with no octree.
C4_WorkerEndsInTerminalPhase ==
    \A id \in DOMAIN wk :
        (wk[id].pc \in { "done", "panicked" } /\ id \in DOMAIN entries) =>
            \/ entries[id].progress.phase = "Complete" /\ entries[id].octree.some
            \/ IsErrorPhase(entries[id].progress.phase) /\ ~entries[id].octree.some

\* C5: the step that reports a failed build changes only the phase of the
\* entry, to "Error: <msg>", and ends the worker; afterwards, as long as the
\* entry is in the registry, it never changes again, it has no octree, and
\* get_nodes and get_visible_nodes on it answer NotReady.
C5_ErrorIsTerminal ==
    [][ \A id \in DOMAIN entries' :
          /\ (id \in DOMAIN entries /\ IsErrorPhase(entries'[id].progress.phase)
                /\ ~IsErrorPhase(entries[id].progress.phase)) =>
                /\ entries'[id] = [entries[id] EXCEPT
                                     !.progress.phase = entries'[id].progress.phase]
                /\ wk'[id].pc = "done"
          /\ (id \in DOMAIN entries /\ IsErrorPhase(entries[id].progress.phase)) =>
                entries'[id] = entries[id]
          /\ IsErrorPhase(entries'[id].progress.phase) =>
                /\ ~entries'[id].octree.some
                /\ AllAnswer(entries', id, NotReady) ]_vars

\* C5 as first stated: once an entry shows an error phase, every later
\* get_nodes and get_visible_nodes on its id answers NotReady and the entry
\* never changes again
C5_NotReadyForEver ==
    [][ \A id \in DOMAIN entries :
          IsErrorPhase(entries[id].progress.phase) =>
              /\ AllAnswer(entries', id, NotReady)
              /\ id \in DOMAIN entries' => entries'[id] = entries[id] ]_vars

C5_Witness ==
    /\ ret.op = "get_visible_nodes"
    /\ ret.res = NotReady
    /\ ret.id \in DOMAIN entries
    /\ IsErrorPhase(entries[ret.id].progress.phase)
    /\ wk[ret.id].pc = "done"

\* the node of the tree with the given id, found by looking at every node
HasNodeWithPoints(t, node_id) ==
    \E n \in 1..Len(t.nodes) : t.nodes[n].node_id = node_id /\ t.nodes[n].points # << >>

NodeWithId(t, node_id) ==
    t.nodes[CHOOSE n \in 1..Len(t.nodes) : t.nodes[n].node_id = node_id]

\* the requested ids that name a node holding points, in request order
RECURSIVE ResolvingIds(_, _)
ResolvingIds(t, node_ids) ==
    IF node_ids = << >> THEN << >>
    ELSE (IF HasNodeWithPoints(t, Head(node_ids)) THEN << Head(node_ids) >> ELSE << >>)
           \o ResolvingIds(t, Tail(node_ids))

GetNodesAsClaimed(es, id, node_ids, res) ==
    IF id \notin DOMAIN es THEN res = NotFound
    ELSE IF ~es[id].octree.some THEN res = NotReady
    ELSE LET t == es[id].octree.val
             want == ResolvingIds(t, node_ids)
         IN  /\ res.ok
             /\ Len(res.val) = Len(want)
             /\ \A i \in 1..Len(want) :
                   /\ res.val[i].node_id = want[i]
                   /\ res.val[i].point_count = Len(NodeWithId(t, want[i]).points)
                   /\ res.val[i].level = NodeWithId(t, want[i]).level

\* every registry value is the source or the target of a step that changes
\* the registry, so checking those steps covers every call
GetNodesAllAsClaimed(es) ==
    \A id \in AllIds, node_ids \in NodeIdLists :
        GetNodesAsClaimed(es, id, node_ids, get_nodes(es, id, node_ids))

\* C6: get_nodes answers NotFound for an id without entry, NotReady for an
\* entry without octree, whatever the node ids (also for none), and otherwise
\* the chunks of exactly the requested ids that name a node with at least one
\* point, in request order and with repetitions; the call leaves the registry
\* as it was.
C6_GetNodes ==
    [][ /\ entries' # entries =>
              GetNodesAllAsClaimed(entries) /\ GetNodesAllAsClaimed(entries')
        /\ (ret' # ret /\ ret'.op = "get_nodes") =>
              /\ entries' = entries
              /\ GetNodesAsClaimed(entries, ret'.id, ret'.node_ids, ret'.res) ]_vars

\* a request with a repeated id and an id that names no node
C6_Witness ==
    /\ ret.op = "get_nodes"
    /\ ret.node_ids = << "r7", "r8", "r7", "r0" >>
    /\ ret.res.ok
    /\ Len(ret.res.val) = 3
    /\ ret.res.val[1].node_id = "r7" /\ ret.res.val[2].node_id = "r7"
    /\ ret.res.val[3].node_id = "r0"

\* the open call has inserted its entry and not yet returned
Inserted(call) == call.pc \in { "spawn", "return" }

\* C7: the ids handed out are pc_n for the successive values n of a counter
\* that starts at 1 and only increases: no two open calls obtain the same
\* id, a later call obtains a larger n, and no call obtains the id of an
\* entry that exists or was closed: until a call inserts its entry its id
\* names no entry, closed or not, and no worker.
C7_IdsUnique ==
    /\ \A i \in 1..Len(issued) : issued[i].id = PcId(issued[i].n)
    /\ issued # << >> => issued[1].n = 1
    /\ \A i, j \in 1..Len(issued) :
          i < j => issued[i].n < issued[j].n /\ issued[i].id # issued[j].id
    /\ \A i \in 1..Len(issued) : issued[i].n < next_id
    /\ \A call \in opens :
          /\ \E i \in 1..Len(issued) : issued[i].id = call.id
          /\ \A other \in opens \ { call } : other.id # call.id
          /\ ~Inserted(call) => call.id \notin DOMAIN entries /\ call.id \notin closed
          /\ call.pc # "return" => call.id \notin DOMAIN wk
    /\ \A id \in DOMAIN entries \cup closed \cup DOMAIN wk :
          \E i \in 1..Len(issued) : issued[i].id = id

\* two open calls in flight at once, each with its own id
C7_Witness ==
    /\ Cardinality(opens) = 2
    /\ Len(issued) = 2

\* C8: a worker holds the write lock only at its lock points; while it reads
\* and decodes points (stream, loop) or runs Octree::build (build) it does
\* not hold the lock, so the calls that need the lock are not kept out by it.
C8_NoLockDuringBuild ==
    /\ lock = Free \/ lock \in DOMAIN wk
    /\ \A id \in DOMAIN wk :
          /\ lock = id => wk[id].pc \in LockPoints
          /\ wk[id].pc \in { "stream", "loop", "build" } => lock # id

\* a get_progress answered while the build of that entry is running
C8_Witness ==
    /\ ret.op = "get_progress"
    /\ ret.res.some
    /\ ret.res.val.phase = "Building octree"
    /\ ret.id \in DOMAIN wk
    /\ wk[ret.id].pc = "build"
    /\ Len(wk[ret.id].all_points) > MAX_POINTS_PER_LEAF

(***************************************************************************)
(* Properties of Octree::build (specification SpecBuild)                   *)
(***************************************************************************)
RECURSIVE CountIn(_, _)
CountIn(ps, p) ==
    IF ps = << >> THEN 0
    ELSE (IF Head(ps) = p THEN 1 ELSE 0) + CountIn(Tail(ps), p)

\* how often point p is held by the nodes n..Len(nodes), or by the leaves
\* among them
RECURSIVE HeldCount(_, _, _, _)
HeldCount(t, n, p, leavesOnly) ==
    IF n > Len(t.nodes) THEN 0
    ELSE (IF leavesOnly /\ ~is_leaf(t.nodes[n]) THEN 0 ELSE CountIn(t.nodes[n].points, p))
           + HeldCount(t, n + 1, p, leavesOnly)

RECURSIVE LeafPointTotal(_, _)
LeafPointTotal(t, n) ==
    IF n > Len(t.nodes) THEN 0
    ELSE (IF is_leaf(t.nodes[n]) THEN Len(t.nodes[n].points) ELSE 0)
           + LeafPointTotal(t, n + 1)

\* C9: after every insert_point and before the LOD pass, no internal node
\* holds a point, every node that holds points is a leaf of level at most
\* MAX_DEPTH, and every point inserted so far is held exactly as often as it
\* was inserted.
C9_InsertionInvariant ==
    stage = "insert" =>
        /\ \A n \in 1..Len(tree.nodes) :
              /\ has_children(tree.nodes[n]) => tree.nodes[n].points = << >>
              /\ tree.nodes[n].points # << >> =>
                    is_leaf(tree.nodes[n]) /\ tree.nodes[n].level <= MAX_DEPTH
        /\ \A p \in PointSet : HeldCount(tree, 1, p, FALSE) = CountIn(inserted, p)

\* a full leaf has been split and a leaf at the depth cap holds more than
\* the leaf capacity
C9_Witness ==
    /\ stage = "insert"
    /\ Len(tree.nodes) > 1
    /\ \E n \in 1..Len(tree.nodes) :
          /\ tree.nodes[n].level = MAX_DEPTH
          /\ Len(tree.nodes[n].points) > MAX_POINTS_PER_LEAF
    /\ \E n \in 1..Len(tree.nodes) :
          tree.nodes[n].level = 1 /\ tree.nodes[n].points # << >>

InsideBounds(ps, bb) == \A i \in 1..Len(ps) : contains(bb, ps[i].x, ps[i].y, ps[i].z)

\* the points of child slot m lie on the side of the parent's centre that
\* bit k of m names: at or above the centre iff the bit is set
OnNamedSide(parent, m, p) ==
    LET c == center(parent.bounds)
    IN  /\ BitSet(m, 0) <=> p.x >= c[1]
        /\ BitSet(m, 1) <=> p.y >= c[2]
        /\ BitSet(m, 2) <=> p.z >= c[3]

\* C10: after Octree::build from n points inside the bounds, the leaves hold
\* n points in total, each input point as often as it occurs in the input,
\* every point of a leaf lies inside the leaf's bounds, and a point on a
\* centre plane of the parent is in the higher octant.
C10_Membership ==
    (stage = "built" /\ InsideBounds(inserted, RootBounds)) =>
        /\ LeafPointTotal(tree, 1) = Len(inserted)
        /\ tree.total_points = Len(inserted)
        /\ \A p \in PointSet : HeldCount(tree, 1, p, TRUE) = CountIn(inserted, p)
        /\ \A n \in 1..Len(tree.nodes) :
              is_leaf(tree.nodes[n]) =>
                  InsideBounds(tree.nodes[n].points, tree.nodes[n].bounds)
        /\ \A n \in 1..Len(tree.nodes), m \in 0..7 :
              LET c == tree.nodes[n].children[m + 1]
              IN  (c # 0 /\ is_leaf(tree.nodes[c])) =>
                      \A i \in 1..Len(tree.nodes[c].points) :
                          OnNamedSide(tree.nodes[n], m, tree.nodes[c].points[i])

\* a built tree whose root was split, with the centre point in octant 7
C10_Witness ==
    /\ stage = "built"
    /\ InsideBounds(inserted, RootBounds)
    /\ Len(inserted) > MAX_POINTS_PER_LEAF
    /\ \E n \in 1..Len(tree.nodes) :
          /\ tree.nodes[n].node_id = "r7"
          /\ is_leaf(tree.nodes[n])
          /\ CountIn(tree.nodes[n].points, PCentre) > 0

\* C11: in every tree Octree::build passes through, and in the built tree, no
\* node has a level above MAX_DEPTH and every leaf above the depth cap holds
\* at most MAX_POINTS_PER_LEAF points; only leaves at level MAX_DEPTH may
\* hold more.
C11_DepthBound ==
    \A n \in 1..Len(tree.nodes) :
        /\ tree.nodes[n].level <= MAX_DEPTH
        /\ (is_leaf(tree.nodes[n]) /\ tree.nodes[n].level < MAX_DEPTH) =>
               Len(tree.nodes[n].points) <= MAX_POINTS_PER_LEAF

\* a built tree with a leaf at the depth cap that coincident points filled
\* to twice the capacity, beside a full leaf above the cap
C11_Witness ==
    /\ stage = "built"
    /\ \E n \in 1..Len(tree.nodes) :
          /\ is_leaf(tree.nodes[n])
          /\ tree.nodes[n].level = MAX_DEPTH
          /\ Len(tree.nodes[n].points) >= 2 * MAX_POINTS_PER_LEAF
    /\ \E n \in 1..Len(tree.nodes) :
          /\ is_leaf(tree.nodes[n])
          /\ tree.nodes[n].level < MAX_DEPTH
          /\ Len(tree.nodes[n].points) = MAX_POINTS_PER_LEAF

\* C12: the root has id "r" and level 0; the child in slot m of a node v has
\* the id of v followed by the digit m, level v.level + 1 and bounds
\* v.bounds.octant(m); so every node's level is the length of its id minus
\* one and no two nodes share an id.
C12_PrefixIds ==
    /\ tree.nodes[1].node_id = "r"
    /\ tree.nodes[1].level = 0
    /\ \A n \in 1..Len(tree.nodes), m \in 0..7 :
          LET v == tree.nodes[n]
              c == v.children[m + 1]
          IN  c # 0 =>
                /\ c \in 2..Len(tree.nodes)
                /\ tree.nodes[c].node_id = v.node_id \o ToString(m)
                /\ tree.nodes[c].level = v.level + 1
                /\ tree.nodes[c].bounds = octant(v.bounds, m)
    /\ \A n \in 1..Len(tree.nodes) :
          tree.nodes[n].level = Len(tree.nodes[n].node_id) - 1
    /\ \A n1, n2 \in 1..Len(tree.nodes) :
          n1 # n2 => tree.nodes[n1].node_id # tree.nodes[n2].node_id

\* a tree with nodes on every level, two of them in different slots of
\* different parents
C12_Witness ==
    /\ stage = "insert"
    /\ \E n1, n2 \in 1..Len(tree.nodes) :
          /\ tree.nodes[n1].node_id = "r00"
          /\ tree.nodes[n2].node_id = "r70"

\* the points of ps at indices 0, SUBSAMPLE_RATIO, 2 * SUBSAMPLE_RATIO, ...
SampleOf(ps) ==
    [ k \in 1..((Len(ps) + SUBSAMPLE_RATIO - 1) \div SUBSAMPLE_RATIO) |->
        ps[SUBSAMPLE_RATIO * (k - 1) + 1] ]

\* the samples of the existing children of node n in slots 0..m-1, in slot
\* order
RECURSIVE ChildSamples(_, _, _)
ChildSamples(t, n, m) ==
    IF m = 0 THEN << >>
    ELSE ChildSamples(t, n, m - 1)
           \o (IF t.nodes[n].children[m] # 0
                THEN SampleOf(t.nodes[t.nodes[n].children[m]].points) ELSE << >>)

RECURSIVE SampleTotal(_, _, _)
SampleTotal(t, n, m) ==
    IF m = 0 THEN 0
    ELSE SampleTotal(t, n, m - 1)
           + (IF t.nodes[n].children[m] # 0
              THEN (Len(t.nodes[t.nodes[n].children[m]].points) + SUBSAMPLE_RATIO - 1)
                     \div SUBSAMPLE_RATIO
              ELSE 0)

\* C13: the LOD pass of Octree::build leaves the shape of the tree and the
\* points of every leaf as they were, and gives every internal node the
\* concatenation, over its existing children in slot order, of each child's
\* final points at indices 0, 8, 16, ...: ceil(len / 8) points per child.
C13_LodSubsample ==
    [][ (stage = "insert" /\ stage' = "built") =>
          /\ Len(tree'.nodes) = Len(tree.nodes)
          /\ \A n \in 1..Len(tree.nodes) :
                /\ tree'.nodes[n].children = tree.nodes[n].children
                /\ tree'.nodes[n].node_id = tree.nodes[n].node_id
                /\ IF is_leaf(tree.nodes[n])
                   THEN tree'.nodes[n].points = tree.nodes[n].points
                   ELSE /\ tree'.nodes[n].points = ChildSamples(tree', n, 8)
                        /\ Len(tree'.nodes[n].points) = SampleTotal(tree', n, 8) ]_vars

\* a built tree in which a leaf of more than SUBSAMPLE_RATIO points gave its
\* parent two points, and the root took its points from internal children
C13_Witness ==
    /\ stage = "built"
    /\ \E n \in 2..Len(tree.nodes), m \in 1..8 :
          LET c == tree.nodes[n].children[m]
          IN  /\ c # 0
              /\ Len(tree.nodes[c].points) > SUBSAMPLE_RATIO
              /\ Len(tree.nodes[n].points) >= 2
    /\ \E m \in 1..8 :
          /\ tree.nodes[1].children[m] # 0
          /\ has_children(tree.nodes[tree.nodes[1].children[m]])
    /\ tree.nodes[1].points # << >>

(***************************************************************************)
(* Properties of Octree::get_visible_nodes (specification SpecBuild)       *)
(***************************************************************************)
IsLodAnswer == ret.op = "Octree::get_visible_nodes"

InSeq(q, e) == \E i \in 1..Len(q) : q[i] = e

\* the ids of node n and of all the nodes below it
RECURSIVE SubtreeIds(_, _)
SubtreeIds(t, n) ==
    { t.nodes[n].node_id }
      \cup UNION { SubtreeIds(t, t.nodes[n].children[m]) :
                     m \in { k \in 1..8 : t.nodes[n].children[k] # 0 } }

\* C14: get_visible_nodes returns neither a node whose screen-space size is
\* below 1 nor any node of its subtree; when this is so for the root, the
\* result is empty.
C14_CullBelowOnePixel ==
    IsLodAnswer =>
        /\ \A n \in 1..Len(tree.nodes) :
              screen_size_below(tree.nodes[n], ret.camera, 1) =>
                  \A id \in SubtreeIds(tree, n) : ~InSeq(ret.res, id)
        /\ screen_size_below(tree.nodes[1], ret.camera, 1) => ret.res = << >>

\* the root is returned and its children, which hold points, are below one
\* pixel
C14_Witness ==
    /\ IsLodAnswer
    /\ ret.res = << "r" >>
    /\ ~screen_size_below(tree.nodes[1], ret.camera, 1)
    /\ \E m \in 1..8 :
          LET c == tree.nodes[1].children[m]
          IN  /\ c # 0
              /\ tree.nodes[c].points # << >>
              /\ screen_size_below(tree.nodes[c], ret.camera, 1)
    /\ ret.point_budget >= Len(tree.nodes[1].points) + 1

\* the candidates in the order collect_visible meets them, and the place of
\* candidate i when they are put in ascending order of priority, equal
\* priorities in the order met
LodCandidates == collect_visible(tree, 1, ret.camera)

PlaceOf(cs, i) ==
    1 + Cardinality({ j \in 1..Len(cs) :
                        \/ priority_less(cs[j].priority, cs[i].priority)
                        \/ /\ ~priority_less(cs[i].priority, cs[j].priority)
                           /\ j < i })

ByPriority(cs) == [ k \in 1..Len(cs) |-> cs[CHOOSE i \in 1..Len(cs) : PlaceOf(cs, i) = k] ]

RECURSIVE CountSum(_, _)
CountSum(cs, k) == IF k = 0 THEN 0 ELSE CountSum(cs, k - 1) + cs[k].count

\* C15: get_visible_nodes returns the ids of the first k candidates in
\* ascending order of priority, where k = 0 without candidates and otherwise
\* k is the largest number such that every prefix of 2..k candidates has a
\* cumulative point count within the budget: the first candidate is always
\* returned, selection stops at the first candidate that does not fit, and
\* the returned total exceeds the budget only when one node is returned.
C15_BudgetPrefix ==
    IsLodAnswer =>
        LET cs == ByPriority(LodCandidates)
            k == Len(ret.res)
        IN  /\ k <= Len(cs)
            /\ \A i \in 1..k : ret.res[i] = cs[i].id
            /\ cs # << >> => k >= 1
            /\ \A j \in 2..k : CountSum(cs, j) <= ret.point_budget
            /\ k < Len(cs) => CountSum(cs, k + 1) > ret.point_budget
            /\ CountSum(cs, k) > ret.point_budget => k = 1

\* a selection that stopped at a candidate that does not fit, before a
\* smaller one that would; its first candidate alone is above half the budget
C15_Witness ==
    /\ IsLodAnswer
    /\ LET cs == ByPriority(LodCandidates)
           k == Len(ret.res)
       IN  /\ k >= 1
           /\ k + 2 <= Len(cs)
           /\ CountSum(cs, k) + cs[k + 1].count > ret.point_budget
           /\ CountSum(cs, k) + cs[k + 2].count <= ret.point_budget

IsPrefix(q, r) == Len(q) <= Len(r) /\ SubSeq(r, 1, Len(q)) = q

\* C16: for a fixed tree and camera, the ids get_visible_nodes returns with
\* a budget b' <= b, half of b among them, are a prefix of, and so a subset
\* in the same order of, the ids it returns with budget b.
C16_BudgetMonotone ==
    IsLodAnswer =>
        \A smaller \in 0..ret.point_budget :
            LET fewer == Octree_get_visible_nodes(tree, ret.camera, smaller)
            IN  /\ IsPrefix(fewer, ret.res)
                /\ \A i \in 1..Len(fewer) : InSeq(ret.res, fewer[i])

\* half the budget returns a shorter list of at least one node
C16_Witness ==
    /\ IsLodAnswer
    /\ Len(ret.res) >= 3
    /\ LET fewer == Octree_get_visible_nodes(tree, ret.camera, ret.point_budget \div 2)
       IN  Len(fewer) >= 1 /\ Len(fewer) < Len(ret.res)

\* the arena index of the node with the given id
NodeIndex(t, id) == CHOOSE n \in 1..Len(t.nodes) : t.nodes[n].node_id = id

\* a node the query may use: a leaf, or a node below 200 pixels
EligibleNode(node, camera) == is_leaf(node) \/ screen_size_below(node, camera, 200)

\* the ids of the nodes that hold points, are eligible, and have neither
\* themselves nor an ancestor below one pixel: what a descent finds that goes
\* on below every internal node, eligible or not
VisitedEligibleIds(t, camera) ==
    { t.nodes[n].node_id : n \in
        { k \in 1..Len(t.nodes) :
            /\ t.nodes[k].points # << >>
            /\ EligibleNode(t.nodes[k], camera)
            /\ \A a \in 1..Len(t.nodes) :
                  t.nodes[k].node_id \in SubtreeIds(t, a) =>
                      ~screen_size_below(t.nodes[a], camera, 1) } }

\* C22: a node id is returned by get_visible_nodes only if the node holds a
\* point and is a leaf or has a screen size below 200; an internal node at
\* 200 or more is not returned, but the nodes below it are visited, and so
\* are the nodes below an eligible internal node: the candidates are all the
\* eligible nodes with points that are not culled, and they are all returned
\* when the budget admits them.
C22_EligibleOnly ==
    IsLodAnswer =>
        /\ \A i \in 1..Len(ret.res) :
              LET node == tree.nodes[NodeIndex(tree, ret.res[i])]
              IN  node.points # << >> /\ EligibleNode(node, ret.camera)
        /\ { LodCandidates[i].id : i \in 1..Len(LodCandidates) }
              = VisitedEligibleIds(tree, ret.camera)
        /\ CountSum(LodCandidates, Len(LodCandidates)) <= ret.point_budget =>
              { ret.res[i] : i \in 1..Len(ret.res) } = VisitedEligibleIds(tree, ret.camera)

\* the root holds points, is at 200 pixels or more and is not returned; a
\* child of the root is internal, below 200 pixels and returned, and so is a
\* child of that child
C22_Witness ==
    /\ IsLodAnswer
    /\ tree.nodes[1].points # << >>
    /\ ~screen_size_below(tree.nodes[1], ret.camera, 200)
    /\ ~InSeq(ret.res, "r")
    /\ \E m \in 1..8 :
          LET c == tree.nodes[1].children[m]
          IN  /\ c # 0
              /\ ~is_leaf(tree.nodes[c])
              /\ screen_size_below(tree.nodes[c], ret.camera, 200)
              /\ InSeq(ret.res, tree.nodes[c].node_id)
              /\ \E k \in 1..8 :
                    /\ tree.nodes[c].children[k] # 0
                    /\ InSeq(ret.res, tree.nodes[tree.nodes[c].children[k]].node_id)

\* id a is a proper prefix of id b: node a is a proper ancestor of node b
ProperAncestorId(a, b) == Len(a) < Len(b) /\ SubSeq(b, 1, Len(a)) = a

\* C23: the ids get_visible_nodes returns form a frontier: no returned node
\* is a proper ancestor of another returned node.
C23_Frontier ==
    IsLodAnswer =>
        \A i, j \in 1..Len(ret.res) : ~ProperAncestorId(ret.res[i], ret.res[j])

IsChunkAnswer == ret.op = "Octree::get_node_chunk"

\* the nodes of the tree whose id is exactly the id asked for
NodesWithId(t, id) == { n \in 1..Len(t.nodes) : t.nodes[n].node_id = id }

\* C25: get_node_chunk(id) returns a chunk exactly when the tree has a node
\* whose id equals id and which holds a point; the chunk has that node's
\* level and centre, point_count n = the number of its points, and arrays
\* of 3n positions, 3n colours, n intensities and n classifications in the
\* order of the node's points.
C25_ChunkIffNodeWithPoints ==
    IsChunkAnswer =>
        LET hits == { n \in NodesWithId(tree, ret.node_id) : tree.nodes[n].points # << >> }
        IN  /\ ret.res.some <=> hits # {}
            /\ ret.res.some =>
                  \E n \in hits :
                    LET node == tree.nodes[n]
                        chunk == ret.res.val
                        c == center(node.bounds)
                        count == Len(node.points)
                    IN  /\ chunk.node_id = ret.node_id
                        /\ chunk.point_count = count
                        /\ chunk.level = node.level
                        /\ chunk.center = c
                        /\ Len(chunk.positions) = 3 * count
                        /\ Len(chunk.colors) = 3 * count
                        /\ Len(chunk.intensities) = count
                        /\ Len(chunk.classifications) = count
                        /\ \A i \in 1..count :
                              LET q == node.points[i]
                              IN  /\ chunk.positions[3 * i - 2] = q.x - c[1]
                                  /\ chunk.positions[3 * i - 1] = q.y - c[2]
                                  /\ chunk.positions[3 * i] = q.z - c[3]
                                  /\ chunk.colors[3 * i - 2] = q.r
                                  /\ chunk.colors[3 * i - 1] = q.g
                                  /\ chunk.colors[3 * i] = q.b
                                  /\ chunk.intensities[i] = q.intensity
                                  /\ chunk.classifications[i] = q.classification

\* a chunk of two different points of a node below the root
C25_Witness ==
    /\ IsChunkAnswer
    /\ ret.res.some
    /\ ret.res.val.level >= 1
    /\ ret.res.val.point_count >= 2
    /\ ret.res.val.intensities[1] # ret.res.val.intensities[2]

\* C26: after Octree::build from at least one point every node of the tree
\* holds a point and every id of a node yields a chunk; the tree built from
\* no point is a root without points.
C26_NoEmptyNode ==
    stage = "built" =>
        /\ inserted # << >> =>
              \A n \in 1..Len(tree.nodes) :
                  /\ tree.nodes[n].points # << >>
                  /\ get_node_chunk(tree, tree.nodes[n].node_id).some
        /\ inserted = << >> =>
              /\ Len(tree.nodes) = 1
              /\ tree.nodes[1].points = << >>
              /\ ~get_node_chunk(tree, "r").some

\* a built tree with internal nodes on two levels, whose points the LOD pass
\* took from leaves at the depth cap
C26_Witness ==
    /\ stage = "built"
    /\ \E n \in 1..Len(tree.nodes) :
          /\ tree.nodes[n].level = 1
          /\ has_children(tree.nodes[n])
          /\ tree.nodes[n].points # << >>
    /\ has_children(tree.nodes[1])
    /\ tree.nodes[1].points # << >>
    /\ ret = NoRet

(***************************************************************************)
(* Properties of pack_chunks_binary (specification SpecPack)               *)
(***************************************************************************)
\* the zero bytes the wire format puts after n bytes to reach a multiple of 4
PadTo4(n) == (4 - (n % 4)) % 4

\* the bytes of a chunk in the wire format, before its final padding
DocChunkBytes(chunk) ==
    4 + Len(chunk.node_id) + PadTo4(Len(chunk.node_id)) + 24 + 4 + 4 + 4
      + chunk.point_count * 12 + chunk.point_count * 3
      + chunk.point_count * 2 + chunk.point_count

\* the offset at which chunk k begins, after the chunk count and k - 1
\* padded chunks
RECURSIVE DocChunkOffset(_, _)
DocChunkOffset(chunks, k) ==
    IF k = 1 THEN 4
    ELSE DocChunkOffset(chunks, k - 1) + DocChunkBytes(chunks[k - 1])
           + PadTo4(DocChunkBytes(chunks[k - 1]))

\* C17: the buffer pack_chunks_binary returns has the pre-computed length
\* total_size = 4 + the sum of the chunk sizes rounded up to 4, a multiple
\* of 4; every chunk's node_id_len field, center field and positions array
\* lie at an offset that is a multiple of 4, and every padding byte is 0.
C17_PackAligned ==
    /\ pack.pc = "loop" => Len(pack.buf) % 4 = 0
    /\ pack.pc = "done" =>
        LET buf == pack.buf
            chunks == pack.chunks
        IN  /\ Len(buf) % 4 = 0
            /\ Len(buf) = pack.total_size
            /\ pack.total_size = DocChunkOffset(chunks, Len(chunks) + 1)
            /\ \A k \in 1..Len(chunks) :
                  LET chunk == chunks[k]
                      off == DocChunkOffset(chunks, k)
                      id_end == off + 4 + Len(chunk.node_id)
                      centre_off == id_end + PadTo4(Len(chunk.node_id))
                      pos_off == centre_off + 24 + 4 + 4 + 4
                      data_end == off + DocChunkBytes(chunk)
                  IN  /\ off % 4 = 0
                      /\ SubSeq(buf, off + 1, off + 4) = u32_to_le_bytes(Len(chunk.node_id))
                      /\ centre_off % 4 = 0
                      /\ SubSeq(buf, centre_off + 1, centre_off + 24)
                            = f64_array(chunk.center)
                      /\ pos_off % 4 = 0
                      /\ SubSeq(buf, pos_off + 1, pos_off + 12 * chunk.point_count)
                            = f32_array(chunk.positions)
                      /\ \A i \in (id_end + 1)..centre_off : buf[i] = 0
                      /\ \A i \in (data_end + 1)..DocChunkOffset(chunks, k + 1) : buf[i] = 0

\* two chunks were packed; the first has an id that needs three bytes of
\* padding and an odd number of points, so that both paddings are written
C17_Witness ==
    /\ pack.pc = "done"
    /\ Len(pack.chunks) = 2
    /\ Len(pack.chunks[1].node_id) = 1
    /\ pack.chunks[1].point_count = 1
    /\ pack.chunks[2].point_count = 2
    /\ Len(pack.buf) > 100

\* the readers of the wire format: the inverses of the little-endian and
\* IEEE 754 encodings, on the integers below 2^20
u32_from_le_bytes(b) == b[1] + 256 * b[2] + 65536 * b[3] + 16777216 * b[4]

u16_from_le_bytes(b) == b[1] + 256 * b[2]

f32_exponent(b) == (b[4] % 128) * 2 + (b[3] \div 128) - 127

f32_fraction(b) == (b[3] % 128) * 65536 + b[2] * 256 + b[1]

f32_readable(b) ==
    \/ b = << 0, 0, 0, 0 >>
    \/ /\ f32_exponent(b) \in 0..20
       /\ f32_fraction(b) % Pow2(23 - f32_exponent(b)) = 0

f32_from_le_bytes(b) ==
    IF b = << 0, 0, 0, 0 >> THEN 0
    ELSE LET a == Pow2(f32_exponent(b)) + (f32_fraction(b) \div Pow2(23 - f32_exponent(b)))
         IN  IF b[4] >= 128 THEN 0 - a ELSE a

RECURSIVE from_utf8(_)
from_utf8(b) ==
    IF b = << >> THEN ""
    ELSE (CHOOSE c \in DOMAIN Utf8 : Utf8[c] = Head(b)) \o from_utf8(Tail(b))

\* the k-th item of width w bytes in the array that begins at offset pos
ItemAt(buf, pos, w, k) == SubSeq(buf, pos + w * (k - 1) + 1, pos + w * k)

\* reads one chunk of the wire format at offset pos: the chunk and the
\* offset after its padding, or ok = FALSE when the bytes are not a chunk
DocReadChunk(buf, pos) ==
    IF pos + 4 > Len(buf) THEN [ok |-> FALSE]
    ELSE
    LET id_len == u32_from_le_bytes(ItemAt(buf, pos, 4, 1))
        id_end == pos + 4 + id_len
        centre_off == id_end + PadTo4(id_len)
    IN  IF centre_off + 36 > Len(buf) THEN [ok |-> FALSE]
        ELSE
        LET n == u32_from_le_bytes(ItemAt(buf, centre_off + 32, 4, 1))
            pos_off == centre_off + 36
            col_off == pos_off + 12 * n
            int_off == col_off + 3 * n
            cls_off == int_off + 2 * n
            data_end == cls_off + n
            next == data_end + PadTo4(data_end)
        IN  IF \/ next > Len(buf)
               \/ \E i \in (id_end + 1)..centre_off : buf[i] # 0
               \/ \E i \in (data_end + 1)..next : buf[i] # 0
               \/ \E i \in (pos + 5)..id_end : buf[i] \notin { Utf8[c] : c \in DOMAIN Utf8 }
               \/ \E k \in 1..3 : ~f64_readable(ItemAt(buf, centre_off, 8, k))
               \/ ~f32_readable(ItemAt(buf, centre_off + 28, 4, 1))
               \/ \E k \in 1..(3 * n) : ~f32_readable(ItemAt(buf, pos_off, 4, k))
            THEN [ok |-> FALSE]
            ELSE [ok |-> TRUE, next |-> next,
                  chunk |->
                    PointChunk(from_utf8(SubSeq(buf, pos + 5, id_end)),
                       [ k \in 1..3 |-> f64_from_le_bytes(ItemAt(buf, centre_off, 8, k)) ],
                       u32_from_le_bytes(ItemAt(buf, centre_off + 24, 4, 1)),
                       f32_from_le_bytes(ItemAt(buf, centre_off + 28, 4, 1)),
                       [ k \in 1..(3 * n) |-> f32_from_le_bytes(ItemAt(buf, pos_off, 4, k)) ],
                       SubSeq(buf, col_off + 1, int_off),
                       [ k \in 1..n |-> u16_from_le_bytes(ItemAt(buf, int_off, 2, k)) ],
                       SubSeq(buf, cls_off + 1, data_end), n)]

\* reads count chunks from offset pos on
RECURSIVE DocReadChunks(_, _, _)
DocReadChunks(buf, pos, count) ==
    IF count = 0 THEN [ok |-> TRUE, chunks |-> << >>, next |-> pos]
    ELSE LET first == DocReadChunk(buf, pos)
             rest == DocReadChunks(buf, first.next, count - 1)
         IN  IF ~first.ok THEN [ok |-> FALSE]
             ELSE IF ~rest.ok THEN [ok |-> FALSE]
             ELSE [ok |-> TRUE, chunks |-> << first.chunk >> \o rest.chunks,
                   next |-> rest.next]

DocRead(buf) ==
    IF Len(buf) < 4 THEN [ok |-> FALSE]
    ELSE DocReadChunks(buf, 4, u32_from_le_bytes(SubSeq(buf, 1, 4)))

\* C18: reading the buffer pack_chunks_binary returns by the documented wire
\* format gives the chunks that were packed, field for field and in order,
\* and ends at the end of the buffer; packing the chunks read gives the
\* same bytes.
C18_PackRoundTrip ==
    pack.pc = "done" =>
        LET read == DocRead(pack.buf)
        IN  /\ read.ok
            /\ read.chunks = pack.chunks
            /\ read.next = Len(pack.buf)
            /\ pack_chunks_binary(read.chunks) = pack.buf

\* two different chunks with points, negative coordinates and an intensity
\* whose two bytes differ were packed
C18_Witness ==
    /\ pack.pc = "done"
    /\ Len(pack.chunks) = 2
    /\ pack.chunks[1] # pack.chunks[2]
    /\ pack.chunks[1].point_count = 2
    /\ pack.chunks[1].intensities[2] = 258
    /\ pack.chunks[2].positions # << >>
    /\ pack.chunks[2].positions[1] < 0

(***************************************************************************)
(* Properties of stream_points (specification SpecStream)                  *)
(***************************************************************************)
RECURSIVE Delivered(_, _)
Delivered(calls, k) == IF k = 0 THEN 0 ELSE Delivered(calls, k - 1) + Len(calls[k].batch)

\* C19: on an uncompressed file whose header announces total points, every
\* call of cb has a start_index equal to the number of points delivered
\* before it and a batch of min(batch_size, total - start_index) points, the
\* points of the file at these indices; stream_points returns Ok, after all
\* total points when cb never returned false, and right after the call in
\* which cb returned false otherwise.
C19_StreamBatches ==
    (stream.pc # "idle" /\ ~stream.parser.is_laz) =>
        LET total == total_points(stream.parser)
            calls == stream.calls
        IN  /\ stream.pc \notin { "panicked", "sigbus" }
            /\ \A k \in 1..Len(calls) :
                  /\ calls[k].start_index = Delivered(calls, k - 1)
                  /\ Len(calls[k].batch) = Min(stream.batch_size, total - calls[k].start_index)
                  /\ \A i \in 1..Len(calls[k].batch) :
                        calls[k].batch[i] =
                            decode_record(stream.parser.header,
                                stream.parser.mmap.records[calls[k].start_index + i])
            /\ stream.stop_at # 0 => Len(calls) <= stream.stop_at
            /\ stream.pc = "done" =>
                  /\ stream.result = Some(Ok("()"))
                  /\ \/ Delivered(calls, Len(calls)) = total
                     \/ stream.stop_at # 0 /\ Len(calls) = stream.stop_at

(***************************************************************************)
(* Properties of open's header validation (specification SpecHeader)       *)
(***************************************************************************)
\* a LAS file of version 1.2 to 1.4 with point data format 0 to 10
SupportedLas(file) ==
    /\ file.size >= 227
    /\ file.signature = "LASF"
    /\ file.version_major = 1
    /\ file.version_minor \in 2..4
    /\ file.point_data_format \in 0..10

\* C20: only LAS files of version 1.2 to 1.4 with point data format 0 to 10
\* are opened: for a file that is shorter than 227 bytes, has another
\* signature, another version or another format, open returns an error and
\* the registry holds no entry of that file.
C20_OnlySupportedOpened ==
    /\ \A id \in DOMAIN entries : SupportedLas(Files[entries[id].metadata.file_path])
    /\ (ret.op = "open" /\ ~SupportedLas(Files[ret.file_path])) => ~ret.res.ok

(***************************************************************************)
(* Properties of the two paths of stream_points (specification SpecTwin)   *)
(***************************************************************************)
\* C24: for the same decoded records, every batch size and every callback,
\* the LAS path and the LAZ path of stream_points call the callback with the
\* same (batch, start_index) pairs in the same order, stop after the same
\* call, and both return: at any time the calls of one run are a prefix of
\* the calls of the other, a run that has returned has made all the calls
\* the other makes, and both return Ok.
C24_LasLazEquivalent ==
    (stream.pc # "idle" /\ twin.pc # "idle") =>
        /\ IsPrefix(stream.calls, twin.calls) \/ IsPrefix(twin.calls, stream.calls)
        /\ stream.pc = "done" => IsPrefix(twin.calls, stream.calls)
        /\ twin.pc = "done" => IsPrefix(stream.calls, twin.calls)
        /\ stream.pc = "done" => stream.result = Some(Ok("()"))
        /\ twin.pc = "done" => twin.result = Some(Ok("()"))
        /\ stream.pc # "panicked" /\ twin.pc # "panicked"

(***************************************************************************)
(* Further properties of the registry (specification Spec)                 *)
(***************************************************************************)
\* the ids of the opens that inserted an entry: those in the registry and
\* those closed
OpenedIds == DOMAIN entries \cup closed

\* C21: an open that fails leaves the manager as it was before the call: no
\* entry, no worker, and the id counter not advanced, so that whenever no
\* open is in progress the counter has been advanced once per successful
\* open and the k-th id handed out belongs to the k-th successful open.
C21_FailedOpenLeavesNoTrace ==
    /\ DOMAIN wk \cup { call.id : call \in { c \in opens : c.pc = "spawn" } } = OpenedIds
    /\ opens = {} => next_id = 1 + Cardinality(OpenedIds)
    /\ (ret.op = "open" /\ ~ret.res.ok) =>
          \A id \in DOMAIN entries : entries[id].metadata.file_path # ret.file_path
                                       \/ Parser_open(ret.file_path, Files[ret.file_path]).ok

\* what the claim says of one entry: a complete entry has processed all
\* the points its header announces and its octree indexes that many, and
\* points_processed does not exceed total_points
AllPointsWhenComplete(e) ==
    /\ e.progress.points_processed <= e.progress.total_points
    /\ e.progress.phase = "Complete" =>
          /\ e.progress.points_processed = e.progress.total_points
          /\ e.octree.some
          /\ e.octree.val.total_points = e.progress.total_points
          /\ LeafPointTotal(e.octree.val, 1) = e.progress.total_points

\* C27: whenever the phase of an entry is "Complete", its points_processed
\* equals its total_points and the installed octree indexes exactly
\* total_points points; points_processed never decreases and never exceeds
\* total_points.
C27_CompleteCountsAllPoints ==
    /\ [](\A id \in DOMAIN entries : AllPointsWhenComplete(entries[id]))
    /\ [][ \A id \in DOMAIN entries \cap DOMAIN entries' :
             entries[id].progress.points_processed
                <= entries'[id].progress.points_processed ]_vars

\* a step of the worker started for id: its position or locals change, or it
\* takes or releases the write lock
WorkerMoves(id) ==
    /\ id \in DOMAIN wk
    /\ \/ wk'[id] # wk[id]
       \/ lock # id /\ lock' = id
       \/ lock = id /\ lock' # id

\* the step is a successful return of open, or a return of close
OpenReturnsOk == ret' # ret /\ ret'.op = "open" /\ ret'.res.ok
CloseReturns == ret' # ret /\ ret'.op = "close"

\* the step is the insert of an open call, manager.rs line 58
OpenInserts(call) ==
    /\ call \in opens
    /\ call.pc = "insert"
    /\ [call EXCEPT !.pc = "spawn"] \in opens'

\* what the claim says of the steps of a worker: the step of the worker
\* started for id changes at most the progress and the octree of entry id
WorkerFrame ==
    \A id \in DOMAIN wk :
        WorkerMoves(id) =>
            /\ DOMAIN entries' = DOMAIN entries
            /\ \A k \in DOMAIN entries \ { id } : entries'[k] = entries[k]
            /\ id \in DOMAIN entries =>
                  /\ entries'[id].metadata = entries[id].metadata
                  /\ entries'[id].progress.total_points
                        = entries[id].progress.total_points

\* C28 as first stated: the worker frame, and the registry keys (and the
\* ids list() returns) are always the ids opened successfully and not yet
\* closed: a key is added by the step in which open returns Ok, with the id
\* returned, and removed by close, and by no other step.
C28_KeysAreReturnedOpens ==
    [][ /\ WorkerFrame
        /\ DOMAIN entries' =
             IF OpenReturnsOk THEN DOMAIN entries \cup { ret'.res.val.id }
             ELSE IF CloseReturns THEN DOMAIN entries \ { ret'.id }
             ELSE DOMAIN entries
        /\ (ret' # ret /\ ret'.op = "list") =>
              \A m \in ret'.res : \A call \in opens' : call.id # m.id ]_vars

\* C28: a step of the worker started for id X changes at most the progress
\* and the octree of entry X: the metadata and progress.total_points of X,
\* every other entry and the set of registry keys stay as they are.  A key
\* is added only by the insert of an open call whose file has been parsed,
\* with the id of that call, and removed only by close; the call that
\* inserted goes on to start the worker and to return Ok with that id, so
\* the keys, and the ids list() returns, are always the ids of the open
\* calls that have inserted their entry - all of which return Ok - and are
\* not yet closed, and an id can be listed before its open has returned.
C28_WorkerFrame ==
    /\ [](/\ DOMAIN entries = (DOMAIN wk \cup { c.id : c \in { k \in opens : k.pc = "spawn" } })
                                 \ closed
          /\ \A call \in opens : Inserted(call) => call.id \in DOMAIN entries \cup closed)
    /\ [][ /\ WorkerFrame
           /\ DOMAIN entries' =
                IF \E call \in opens : OpenInserts(call)
                THEN DOMAIN entries \cup { call.id : call \in { c \in opens : OpenInserts(c) } }
                ELSE IF CloseReturns THEN DOMAIN entries \ { ret'.id }
                ELSE DOMAIN entries
           /\ \A call \in opens :
                 /\ (call.pc = "spawn" /\ call \notin opens') =>
                       /\ [call EXCEPT !.pc = "return"] \in opens'
                       /\ wk' = MapInsert(wk, call.id, NewWorker(call.parser.val))
                 /\ (call.pc = "return" /\ call \notin opens') =>
                       /\ OpenReturnsOk
                       /\ ret'.res.val.id = call.id
           /\ OpenReturnsOk => ret'.res.val.id \in (DOMAIN entries \cup closed) \cap DOMAIN wk
           /\ DOMAIN wk' # DOMAIN wk => \E call \in opens : call.pc = "spawn" /\ call \notin opens'
           /\ (ret' # ret /\ ret'.op = "list") =>
                 { m.id : m \in ret'.res } = DOMAIN entries ]_vars

\* two pointclouds are open and both workers have run: one has installed
\* its octree, the other has begun to read while the open call that
\* inserted its entry has not returned yet, and list() returns both ids
C28_Witness ==
    /\ ret.op = "list"
    /\ { m.id : m \in ret.res } = DOMAIN entries
    /\ Cardinality(DOMAIN entries) = 2
    /\ \E id \in DOMAIN entries, call \in opens :
          /\ id # call.id
          /\ entries[id].octree.some
          /\ call.pc = "return"
          /\ call.id \in DOMAIN entries
          /\ wk[call.id].pc = "loop"

(***************************************************************************)
(* Properties of POST /eval (specification SpecEval)                       *)
(***************************************************************************)
Answered(r) == evals[r].pc = "answered"

\* the step is a call of api_eval_callback for the id of an answered request
LateDelivery ==
    \E call \in webview :
        /\ webview' = webview \ { call }
        /\ \E r \in 1..MaxRequests : Answered(r) /\ evals[r].eval_id = call.evalId

\* C29: every /eval request is answered with the result delivered for its
\* own eval id, which is the payload of its own script, or with the timeout
\* error, or with the error of a failed webview eval, never with the result
\* of another request, which shows where the scripts differ; once a request
\* is answered its eval id is not in pending_evals, and a result delivered
\* later for that id changes nothing.
C29_OwnResultOnly ==
    /\ [](\A r \in 1..MaxRequests :
            Answered(r) =>
                /\ \A q \in 1..MaxRequests \ { r } :
                      (evals[q].script # "" /\ evals[q].script # evals[r].script)
                          => evals[r].resp_body # Payload(evals[q].script)
                /\ evals[r].resp_body \in
                      (IF evals[r].script = "" THEN { NoScriptBody }
                       ELSE { Payload(evals[r].script), TimeoutBody })
                        \cup { EvalFailedBody(e) : e \in EvalErrors }
                /\ evals[r].eval_id \notin DOMAIN pending_evals)
    /\ [][ LateDelivery => UNCHANGED << pending_evals, handles, evals >> ]_vars
====
